---- MODULE Spec2Model ----
(***************************************************************************)
(* Transcript OCR pipeline (laiw54724-ui/Track): the pixel-level table and *)
(* row detectors, the per-cell recognition loop of processTranscripts, and *)
(* the start / cancel / file-selection handlers of the Home component.     *)
(*                                                                         *)
(* Pure functions (detectTableBounds, detectRows, cleanupText, ...) are    *)
(* modelled from src/src/app/page.tsx; the run state machine with          *)
(* cancelProcessing is modelled from the latest page component, which is   *)
(* the second file held in src/unnamed/part_003 (lines 1021-1880).         *)
(***************************************************************************)
EXTENDS Integers, Sequences, FiniteSets, TLC

Min2(a, b) == IF a < b THEN a ELSE b
Max2(a, b) == IF a > b THEN a ELSE b
SetMin(S) == CHOOSE m \in S : \A n \in S : m <= n
SetMax(S) == CHOOSE m \in S : \A n \in S : m >= n

(* Math.round(num / den) for num >= 0, den > 0: floor(num/den + 1/2). *)
MathRound(num, den) == (2 * num + den) \div (2 * den)

(***************************************************************************)
(* Pixel buffers.  An image is a white sheet with rectangular colour bands *)
(* painted on it; (ox, oy) is the offset of a crop taken from it, so that  *)
(* pixel(img, x, y) is what data[(y * width + x) * 4 ..] holds.            *)
(***************************************************************************)
RGB(c) ==
  CASE c = "white" -> [r |-> 255, g |-> 255, b |-> 255]
    [] c = "paper" -> [r |-> 250, g |-> 250, b |-> 250]
    [] c = "ink"   -> [r |-> 0,   g |-> 0,   b |-> 0]
    [] c = "green" -> [r |-> 60,  g |-> 180, b |-> 75]
    [] c = "mint"  -> [r |-> 229, g |-> 255, b |-> 244]

Band(top, bottom, x0, x1, colour) ==
  [top |-> top, bottom |-> bottom, x0 |-> x0, x1 |-> x1, colour |-> colour]

Sheet(width, height, bands) ==
  [width |-> width, height |-> height, bands |-> bands, ox |-> 0, oy |-> 0]

pixel(img, x, y) ==
  LET X == x + img.ox
      Y == y + img.oy
      hits == {i \in 1..Len(img.bands) :
                 /\ img.bands[i].top <= Y /\ Y <= img.bands[i].bottom
                 /\ img.bands[i].x0 <= X /\ X <= img.bands[i].x1}
  IN  IF hits = {} THEN RGB("white") ELSE RGB(img.bands[SetMin(hits)].colour)

(* tableContext.drawImage(canvas, x, y, w, h, 0, 0, w, h) + getImageData *)
cropImage(img, bounds) ==
  [width |-> bounds.width, height |-> bounds.height, bands |-> img.bands,
   ox |-> img.ox + bounds.x, oy |-> img.oy + bounds.y]

(* g > 120 && g > r + 25 && g > b + 10 *)
isGreenPixel(p) == p.g > 120 /\ p.g > p.r + 25 /\ p.g > p.b + 10

(* brightness = 0.299 r + 0.587 g + 0.114 b; isActive = brightness < 248 *)
isActive(p) == 299 * p.r + 587 * p.g + 114 * p.b < 248000

(* A ratio count / width is kept as the pair, and compared exactly. *)
Ratio(num, den) == [num |-> num, den |-> den]
(* ratio > p / q *)
RatioGT(ratio, p, q) == ratio.num * q > p * ratio.den
(* ratio <= p / q *)
RatioLE(ratio, p, q) == ~RatioGT(ratio, p, q)

(***************************************************************************)
(* detectTableBounds                                                       *)
(***************************************************************************)
rowStat(img, y) ==
  LET greens == {x \in 0..(img.width - 1) : isGreenPixel(pixel(img, x, y))}
      actives == {x \in 0..(img.width - 1) : isActive(pixel(img, x, y))}
  IN  [greenRatio |-> Ratio(Cardinality(greens), img.width),
       activeRatio |-> Ratio(Cardinality(actives), img.width),
       minX |-> IF greens = {} THEN img.width ELSE SetMin(greens),
       maxX |-> IF greens = {} THEN 0 ELSE SetMax(greens)]

(* the header test with the 0.02 of the left/right scan for its 0.05 *)
headerRowsLow(rowStats, h) == {y \in 0..(h - 1) : RatioGT(rowStats[y].greenRatio, 2, 100)}

(* rows with greenRatio > 0.05; the first one sets top (hasGreen) *)
headerRows(rowStats, h) == {y \in 0..(h - 1) : RatioGT(rowStats[y].greenRatio, 5, 100)}

(* top without its clamp to 0 *)
tableTopUnclamped(y, height) == y - MathRound(height * 2, 100)

(* top = Math.max(0, y - Math.round(height * 0.02)) *)
tableTop(y, height) == Max2(0, y - MathRound(height * 2, 100))

(* width: Math.max(0, paddedRight - paddedLeft) *)
boundsWidth(w, pl, pr) == Max2(0, pr - pl)

detectTableBounds(img) ==
  LET width == img.width
      height == img.height
      stats == [y \in 0..(height - 1) |-> rowStat(img, y)]
      hdr == headerRows(stats, height)
      hasGreen == hdr # {}
      top == IF hasGreen THEN tableTop(SetMin(hdr), height) ELSE 0
      act == {y \in 0..(height - 1) : RatioGT(stats[y].activeRatio, 2, 100)}
      bottom == IF act = {} THEN height - 1
                ELSE Min2(height - 1, SetMax(act) + MathRound(height * 2, 100))
      marked == {y \in 0..(height - 1) : RatioGT(stats[y].greenRatio, 2, 100)}
      left0 == SetMin({width} \cup {stats[y].minX : y \in marked})
      right0 == SetMax({0} \cup {stats[y].maxX : y \in marked})
      left == IF left0 >= right0 THEN 0 ELSE left0
      right == IF left0 >= right0 THEN width - 1 ELSE right0
      horizontalPadding == MathRound(width, 100)
      paddedLeft == Max2(0, left - horizontalPadding)
      paddedRight == Min2(width, right + horizontalPadding)
  IN  IF ~hasGreen
      THEN [x |-> 0, y |-> 0, width |-> width, height |-> height]
      ELSE [x |-> paddedLeft, y |-> top,
            width |-> boundsWidth(width, paddedLeft, paddedRight),
            height |-> Min2(height - top, bottom - top)]

(* The earlier detectTableBounds (the first file held in                   *)
(* src/unnamed/part_003): the same scans, and the width written inline as  *)
(* Math.min(width - x, right + pad) - x, with x = Math.max(0, left - pad)  *)
detectTableBoundsEarlier(img) ==
  LET width == img.width
      height == img.height
      stats == [y \in 0..(height - 1) |-> rowStat(img, y)]
      hdr == headerRows(stats, height)
      hasGreen == hdr # {}
      top == IF hasGreen THEN tableTop(SetMin(hdr), height) ELSE 0
      act == {y \in 0..(height - 1) : RatioGT(stats[y].activeRatio, 2, 100)}
      bottom == IF act = {} THEN height - 1
                ELSE Min2(height - 1, SetMax(act) + MathRound(height * 2, 100))
      marked == {y \in 0..(height - 1) : RatioGT(stats[y].greenRatio, 2, 100)}
      left0 == SetMin({width} \cup {stats[y].minX : y \in marked})
      right0 == SetMax({0} \cup {stats[y].maxX : y \in marked})
      left == IF left0 >= right0 THEN 0 ELSE left0
      right == IF left0 >= right0 THEN width - 1 ELSE right0
      x == Max2(0, left - MathRound(width, 100))
  IN  IF ~hasGreen
      THEN [x |-> 0, y |-> 0, width |-> width, height |-> height]
      ELSE [x |-> x, y |-> top,
            width |-> Min2(width - x, right + MathRound(width, 100)) - x,
            height |-> Min2(height - top, bottom - top)]

(***************************************************************************)
(* detectRows                                                              *)
(***************************************************************************)
analyzeRow(img, y) ==
  LET actives == {x \in 0..(img.width - 1) : isActive(pixel(img, x, y))}
      greens == {x \in 0..(img.width - 1) : isGreenPixel(pixel(img, x, y))}
  IN  [activeRatio |-> Ratio(Cardinality(actives), img.width),
       greenRatio |-> Ratio(Cardinality(greens), img.width)]

DetectedRow(top, bottom, activeRatio, greenRatio) ==
  [top |-> top, bottom |-> bottom, height |-> bottom - top,
   activeRatio |-> activeRatio, greenRatio |-> greenRatio]

(* the height test with >= for > *)
minRowHeightInclusive(rowHeight, height) == rowHeight * 1000 >= Max2(12000, 15 * height)

(* rowHeight > Math.max(12, height * 0.015) *)
minRowHeight(rowHeight, height) == rowHeight * 1000 > Max2(12000, 15 * height)

(* scanLine opening a row two scanlines above the first active one: y - 2  *)
scanLineEarlyStart(img, st, y) ==
  LET a == analyzeRow(img, y)
  IN  IF ~st.inside /\ RatioGT(a.activeRatio, 15, 1000)
      THEN [st EXCEPT !.inside = TRUE, !.start = y - 2, !.quietCounter = 0]
      ELSE IF st.inside /\ RatioLE(a.activeRatio, 1, 100)
      THEN IF st.quietCounter + 1 >= 2
           THEN [st EXCEPT !.inside = FALSE, !.quietCounter = 0,
                   !.rows = IF minRowHeight(y - st.start, img.height)
                            THEN Append(st.rows,
                                   DetectedRow(st.start, y, a.activeRatio, a.greenRatio))
                            ELSE st.rows]
           ELSE [st EXCEPT !.quietCounter = st.quietCounter + 1]
      ELSE IF st.inside
      THEN [st EXCEPT !.quietCounter = 0]
      ELSE st

(* scanLine handing the row the ratios of the band's first scanline, not   *)
(* those of the scanline that closes it                                    *)
scanLineBandRatios(img, st, y) ==
  LET a == analyzeRow(img, y)
      band == analyzeRow(img, st.start + 1)
  IN  IF ~st.inside /\ RatioGT(a.activeRatio, 15, 1000)
      THEN [st EXCEPT !.inside = TRUE, !.start = Max2(0, y - 1), !.quietCounter = 0]
      ELSE IF st.inside /\ RatioLE(a.activeRatio, 1, 100)
      THEN IF st.quietCounter + 1 >= 2
           THEN [st EXCEPT !.inside = FALSE, !.quietCounter = 0,
                   !.rows = IF minRowHeight(y - st.start, img.height)
                            THEN Append(st.rows,
                                   DetectedRow(st.start, y, band.activeRatio, band.greenRatio))
                            ELSE st.rows]
           ELSE [st EXCEPT !.quietCounter = st.quietCounter + 1]
      ELSE IF st.inside
      THEN [st EXCEPT !.quietCounter = 0]
      ELSE st

(* scanLine without the reset of the quiet counter on a scanline that is   *)
(* not quiet                                                               *)
scanLineNoReset(img, st, y) ==
  LET a == analyzeRow(img, y)
  IN  IF ~st.inside /\ RatioGT(a.activeRatio, 15, 1000)
      THEN [st EXCEPT !.inside = TRUE, !.start = Max2(0, y - 1), !.quietCounter = 0]
      ELSE IF st.inside /\ RatioLE(a.activeRatio, 1, 100)
      THEN IF st.quietCounter + 1 >= 2
           THEN [st EXCEPT !.inside = FALSE, !.quietCounter = 0,
                   !.rows = IF minRowHeight(y - st.start, img.height)
                            THEN Append(st.rows,
                                   DetectedRow(st.start, y, a.activeRatio, a.greenRatio))
                            ELSE st.rows]
           ELSE [st EXCEPT !.quietCounter = st.quietCounter + 1]
      ELSE st

(* One iteration of the scan loop, on the scan state st. *)
scanLine(img, st, y) ==
  LET a == analyzeRow(img, y)
  IN  IF ~st.inside /\ RatioGT(a.activeRatio, 15, 1000)
      THEN [st EXCEPT !.inside = TRUE, !.start = Max2(0, y - 1), !.quietCounter = 0]
      ELSE IF st.inside /\ RatioLE(a.activeRatio, 1, 100)
      THEN IF st.quietCounter + 1 >= 2
           THEN [st EXCEPT !.inside = FALSE, !.quietCounter = 0,
                   !.rows = IF minRowHeight(y - st.start, img.height)
                            THEN Append(st.rows,
                                   DetectedRow(st.start, y, a.activeRatio, a.greenRatio))
                            ELSE st.rows]
           ELSE [st EXCEPT !.quietCounter = st.quietCounter + 1]
      ELSE IF st.inside
      THEN [st EXCEPT !.quietCounter = 0]
      ELSE st

(* for (y = lo; y <= hi; y += 1), folded left to right.  The range is     *)
(* halved, and the first half evaluated before the second is entered, only *)
(* to keep the evaluation shallow on tall buffers.                         *)
RECURSIVE scanLines(_, _, _, _)
scanLines(img, st, lo, hi) ==
  IF lo > hi THEN st
  ELSE IF lo = hi THEN scanLine(img, st, lo)
  ELSE LET mid == (lo + hi) \div 2
           firstHalf == scanLines(img, st, lo, mid)
       IN  IF firstHalf.quietCounter >= 0
           THEN scanLines(img, firstHalf, mid + 1, hi)
           ELSE firstHalf

detectRows(img) ==
  LET st0 == [inside |-> FALSE, start |-> 0, quietCounter |-> 0, rows |-> <<>>]
      st == scanLines(img, st0, 0, img.height - 1)
      lastLine == img.height - 1
  IN  IF st.inside /\ minRowHeight(lastLine - st.start, img.height)
      THEN Append(st.rows, DetectedRow(st.start, lastLine, Ratio(2, 100), Ratio(0, 1)))
      ELSE st.rows

(***************************************************************************)
(* Text.  A string is a sequence of characters; a character is written as  *)
(* a one-character string, or as a token for the characters TLA+ strings   *)
(* cannot hold: "LF" (U+000A), "TAB" (U+0009), "u3000" (ideographic        *)
(* space), "uFF11" (fullwidth digit one), "u2014" (em dash) and the CJK    *)
(* characters of the summary terms.                                        *)
(***************************************************************************)
Digits == {"0", "1", "2", "3", "4", "5", "6", "7", "8", "9"}
ControlChars == {"LF", "TAB"}
WhiteSpace == {" ", "LF", "TAB", "u3000"}

RECURSIVE filterSeq(_, _)
filterSeq(s, keep) ==
  IF s = <<>> THEN <<>>
  ELSE IF Head(s) \in keep THEN <<Head(s)>> \o filterSeq(Tail(s), keep)
  ELSE filterSeq(Tail(s), keep)

RECURSIVE dropSeq(_, _)
dropSeq(s, drop) ==
  IF s = <<>> THEN <<>>
  ELSE IF Head(s) \in drop THEN dropSeq(Tail(s), drop)
  ELSE <<Head(s)>> \o dropSeq(Tail(s), drop)

(* value.replace(/\s+/g, " ") *)
RECURSIVE collapseSpace(_)
collapseSpace(s) ==
  IF s = <<>> THEN <<>>
  ELSE IF Head(s) \in WhiteSpace
       THEN IF Len(s) > 1 /\ s[2] \in WhiteSpace
            THEN collapseSpace(Tail(s))
            ELSE <<" ">> \o collapseSpace(Tail(s))
       ELSE <<Head(s)>> \o collapseSpace(Tail(s))

RECURSIVE trimLeft(_)
trimLeft(s) ==
  IF s # <<>> /\ Head(s) \in WhiteSpace THEN trimLeft(Tail(s)) ELSE s

RECURSIVE trimRight(_)
trimRight(s) ==
  IF s # <<>> /\ s[Len(s)] \in WhiteSpace THEN trimRight(SubSeq(s, 1, Len(s) - 1)) ELSE s

cleanupText(value) == trimRight(trimLeft(collapseSpace(dropSeq(value, ControlChars))))

(* pattern.test(text) for a literal pattern: text contains pat *)
containsText(text, pat) ==
  \E i \in 1..(Len(text) - Len(pat) + 1) : SubSeq(text, i, i + Len(pat) - 1) = pat

MinCourseDigits == 4
(* /\d{4,}/.test(text) *)
hasDigitRun(text) ==
  \E i \in 1..(Len(text) - MinCourseDigits + 1) :
    \A j \in i..(i + MinCourseDigits - 1) : text[j] \in Digits

(* the alternatives of the summary pattern, in source order *)
summaryTerms ==
  << <<"u5B78", "u671F", "u6210", "u7E3E">>,
     <<"u5E73", "u5747">>,
     <<"C", "r", "e", "d", "i", "t", "s">>,
     <<"u7E3D", "u5206">> >>

(***************************************************************************)
(* Numbers.  A parsed number is a decimal n / 10^e kept in canonical form  *)
(* (e minimal); isNull marks the null of number | null.  NaN and Infinity  *)
(* are the non-finite numbers.                                             *)
(***************************************************************************)
NullNumber == [isNull |-> TRUE, n |-> 0, e |-> 0]

NotANumber == [nonFinite |-> "NaN"]
PlusInfinity == [nonFinite |-> "Infinity"]

(* Number.isFinite *)
NumberIsFinite(x) == "nonFinite" \notin DOMAIN x

(* Number.isNaN *)
NumberIsNaN(x) == x = NotANumber

RECURSIVE canonical(_, _)
canonical(n, e) ==
  IF e > 0 /\ n % 10 = 0 THEN canonical(n \div 10, e - 1)
  ELSE [isNull |-> FALSE, n |-> n, e |-> e]

digitValue(c) ==
  CASE c = "0" -> 0 [] c = "1" -> 1 [] c = "2" -> 2 [] c = "3" -> 3 [] c = "4" -> 4
    [] c = "5" -> 5 [] c = "6" -> 6 [] c = "7" -> 7 [] c = "8" -> 8 [] c = "9" -> 9

RECURSIVE digitsValue(_)
digitsValue(s) ==
  IF s = <<>> THEN 0 ELSE 10 * digitsValue(SubSeq(s, 1, Len(s) - 1)) + digitValue(s[Len(s)])

RECURSIVE leadingDigits(_)
leadingDigits(s) ==
  IF s # <<>> /\ Head(s) \in Digits THEN <<Head(s)>> \o leadingDigits(Tail(s)) ELSE <<>>

(* Number.parseFloat on a string of digits and dots: the longest prefix   *)
(* digits [ "." digits ] holding at least one digit, NaN otherwise.        *)
parseFloatDecimal(s) ==
  LET ip == leadingDigits(s)
      rest == SubSeq(s, Len(ip) + 1, Len(s))
      fp == IF rest # <<>> /\ Head(rest) = "." THEN leadingDigits(Tail(rest)) ELSE <<>>
  IN  IF ip = <<>> /\ fp = <<>> THEN NotANumber
      ELSE canonical(digitsValue(ip \o fp), Len(fp))

(* parseNumber without its Number.isNaN test *)
parseNumberUnchecked(value) ==
  LET sanitized == filterSeq(value, Digits \cup {"."})
  IN  IF sanitized = <<>> THEN NullNumber ELSE parseFloatDecimal(sanitized)

parseNumber(value) ==
  LET sanitized == filterSeq(value, Digits \cup {"."})
  IN  IF sanitized = <<>> THEN NullNumber
      ELSE IF NumberIsNaN(parseFloatDecimal(sanitized)) THEN NullNumber
      ELSE parseFloatDecimal(sanitized)

(***************************************************************************)
(* Column layout and course records                                        *)
(***************************************************************************)
(* start and end are percentages of the row width *)
columnLayout ==
  << [key |-> "courseNumber", start |-> 0,  end |-> 10],
     [key |-> "requirement",  start |-> 10, end |-> 18],
     [key |-> "courseName",   start |-> 18, end |-> 32],
     [key |-> "englishName",  start |-> 32, end |-> 56],
     [key |-> "courseCode",   start |-> 56, end |-> 66],
     [key |-> "stage",        start |-> 66, end |-> 72],
     [key |-> "credits",      start |-> 72, end |-> 78],
     [key |-> "score",        start |-> 78, end |-> 86],
     [key |-> "remarks",      start |-> 86, end |-> 100] >>

emptyCourse(termLabel, index, rowIndex) ==
  [id |-> <<termLabel, index, rowIndex>>, term |-> termLabel,
   courseNumber |-> <<>>, requirement |-> <<>>, courseName |-> <<>>,
   englishName |-> <<>>, courseCode |-> <<>>, stage |-> <<>>,
   credits |-> NullNumber, score |-> NullNumber, remarks |-> <<>>]

(* the switch on column.key *)
assignColumn(course, key, cleaned) ==
  CASE key = "credits" -> [course EXCEPT !.credits = parseNumber(cleaned)]
    [] key = "score" -> [course EXCEPT !.score = parseNumber(cleaned)]
    [] key = "courseNumber" -> [course EXCEPT !.courseNumber = cleaned]
    [] key = "requirement" -> [course EXCEPT !.requirement = cleaned]
    [] key = "courseName" -> [course EXCEPT !.courseName = cleaned]
    [] key = "englishName" -> [course EXCEPT !.englishName = cleaned]
    [] key = "courseCode" -> [course EXCEPT !.courseCode = cleaned]
    [] key = "stage" -> [course EXCEPT !.stage = cleaned]
    [] key = "remarks" -> [course EXCEPT !.remarks = cleaned]

hasValidCourseNumber(course) == hasDigitRun(course.courseNumber)
hasValidScore(course) == ~course.score.isNull
looksLikeSummary(course) ==
  \E t \in 1..Len(summaryTerms) :
    containsText(course.courseName \o <<" ">> \o course.remarks, summaryTerms[t])

(* the acceptance test without its summary check *)
acceptsCourseAnyName(course) == hasValidCourseNumber(course) /\ hasValidScore(course)

(* if (hasValidCourseNumber && hasValidScore && !looksLikeSummary) *)
acceptsCourse(course) ==
  hasValidCourseNumber(course) /\ hasValidScore(course) /\ ~looksLikeSummary(course)

(* row.greenRatio > 0.1, then rowHeight < Math.max(18, bounds.height * 0.02) *)
skipsRow(row, bounds) ==
  \/ RatioGT(row.greenRatio, 1, 10)
  \/ (row.bottom - row.top) * 100 < Max2(1800, 2 * bounds.height)

(* the row loop stopping one row early: rowIndex < rows.length - 1 *)
RECURSIVE nextRowIndexShort(_, _, _)
nextRowIndexShort(rows, bounds, k) ==
  IF k >= Len(rows) - 1 THEN -1
  ELSE IF skipsRow(rows[k + 1], bounds) THEN nextRowIndexShort(rows, bounds, k + 1)
  ELSE k

(* the first row index >= k (0-based) the row loop does not skip; -1 if none *)
RECURSIVE nextRowIndex(_, _, _)
nextRowIndex(rows, bounds, k) ==
  IF k >= Len(rows) THEN -1
  ELSE IF skipsRow(rows[k + 1], bounds) THEN nextRowIndex(rows, bounds, k + 1)
  ELSE k

(***************************************************************************)
(* Bounds of the model                                                     *)
(***************************************************************************)
MaxRuns == 2
MaxImages == 2

(***************************************************************************)
(* The files a user can select.  A file is named by its base name, which   *)
(* is also its termLabel (deriveTermLabel strips the extension).           *)
(*   A: a green header band and one course row below it                    *)
(*   B: no header; a thin rule and one inked row                           *)
(*   C: no header; one inked row                                           *)
(***************************************************************************)
FileNames == {"A", "B", "C"}

fileSheet(file) ==
  CASE file = "A" -> Sheet(10, 50, << Band(2, 19, 0, 9, "green"), Band(24, 45, 1, 8, "ink") >>)
    [] file = "B" -> Sheet(10, 60, << Band(3, 15, 0, 9, "ink"), Band(25, 50, 0, 7, "ink") >>)
    [] file = "C" -> Sheet(10, 30, << Band(4, 24, 2, 9, "ink") >>)

(* const bounds = detectTableBounds(baseData); ...drawImage...;            *)
(* const rows = detectRows(tableData): a function of the file's pixels     *)
locateTable(baseData) ==
  CHOOSE located \in
    {[bounds |-> tableBounds,
      rows |-> IF tableBounds.width = 0 \/ tableBounds.height = 0
               THEN <<>>
               ELSE detectRows(cropImage(baseData, tableBounds))] :
       tableBounds \in {detectTableBounds(baseData)}} : TRUE

(* locateTable of each file, evaluated once *)
fileTable ==
  [A |-> locateTable(fileSheet("A")),
   B |-> locateTable(fileSheet("B")),
   C |-> locateTable(fileSheet("C"))]

(* What the recognition engine can return for a cell (data.text). *)
OcrTexts(file, rowIndex, key) ==
  CASE file = "A" /\ rowIndex = 0 /\ key = "courseNumber" -> { <<"u8AB2", "u865F", "LF">> }
    [] file = "A" /\ rowIndex = 0 /\ key = "score" -> { <<"u6210", "u7E3E", "LF">> }
    [] file = "A" /\ rowIndex = 1 /\ key = "courseNumber" -> { <<"1", "2", "3", "4", "5", "LF">> }
    [] file = "A" /\ rowIndex = 1 /\ key = "courseName" ->
         { <<"C", "a", "l", "c", " ", " ", "I", "LF">>, <<"u5B78", "u671F", "u6210", "u7E3E">> }
    [] file = "A" /\ rowIndex = 1 /\ key = "credits" -> { <<"3", "LF">> }
    [] file = "A" /\ rowIndex = 1 /\ key = "score" -> { <<"8", "7", ".", "5", " ", "u5206", "LF">> }
    [] file = "A" /\ rowIndex = 1 /\ key = "remarks" ->
         { <<>>, <<"C", "r", "e", "d", "i", "t", "s", " ", "3">> }
    [] file = "B" /\ key = "courseNumber" -> { <<"1", "2">>, <<"2", "0", "2", "3", "1">> }
    [] file = "B" /\ key = "courseName" -> { <<"A", "l", "g">> }
    [] file = "B" /\ key = "score" -> { <<"9", "0">>, <<"-", "-">> }
    [] file = "B" /\ key = "remarks" -> { <<>>, <<"u5E73", "u5747", " ", "8", "8">> }
    [] file = "C" /\ key = "courseNumber" -> { <<"3", "0", "0", "7">> }
    [] file = "C" /\ key = "score" -> { <<"6", "0">> }
    [] OTHER -> { <<>> }

FileLists == UNION {[1..n -> {"A", "B"}] : n \in 1..MaxImages}

(* const newImages = Array.from(files).map(...) *)
uploadedImage(file) == [file |-> file, termLabel |-> file]

(***************************************************************************)
(* Status messages and step details are kept as a tag and a number; the    *)
(* tags stand for the texts of the source:                                 *)
(*   preparing        "準備開始分析，請稍候..."                            *)
(*   ocrProgress p    "辨識中文字中... p%" / "OCR 進度 p%"                 *)
(*   analyzing i      "分析 <termLabel> (i/n)"                             *)
(*   noRecords        "完成辨識，但未偵測到有效的課程資料。..."            *)
(*   completed n      "完成！共擷取 n 筆課程資料。"                        *)
(*   cancelled        "辨識已取消。"                                       *)
(*   failed           "辨識過程發生錯誤，請稍後再試或更換圖片。"           *)
(*   cancelRequested  "已取消辨識流程。"                                   *)
(*   creatingWorker   "建立 OCR 工作執行緒..."                             *)
(*   workerReady      "工作執行緒建立完成"                                 *)
(*   loadingModels    "載入繁體中文與英文模型..."                          *)
(*   languageLoaded   "語言載入完成"                                       *)
(*   recognizing i    "辨識第 i 張 (<rows> 行)"                            *)
(*   tablesLocated    "表格定位完成"                                       *)
(*   recognitionDone  "文字辨識完成"                                       *)
(*   noValidData      "未偵測到有效資料"                                   *)
(*   cancelledByUser  "使用者已取消辨識"                                   *)
(*   processingError  "處理過程發生錯誤"                                   *)
(***************************************************************************)
Msg(tag, arg) == [tag |-> tag, arg |-> arg]
NoMsg == Msg("none", 0)
NoTone == "none"
NoProgress == -1
NoWorker == 0
Keep == "keep"

ProgressValues == {50}

initialSteps ==
  << [id |-> "init-worker",    status |-> "active",  detail |-> NoMsg],
     [id |-> "load-language",  status |-> "pending", detail |-> NoMsg],
     [id |-> "analyze-images", status |-> "pending", detail |-> NoMsg],
     [id |-> "recognize",      status |-> "pending", detail |-> NoMsg],
     [id |-> "summary",        status |-> "pending", detail |-> NoMsg] >>

(* previous.map((step) => (step.id === id ? { ...step, ...patch } : step)) *)
updateProcessingStep(steps, id, status, detail) ==
  [i \in DOMAIN steps |->
     IF steps[i].id = id
     THEN [steps[i] EXCEPT !.status = IF status = Keep THEN @ ELSE status,
                           !.detail = detail]
     ELSE steps[i]]

VARIABLES
  images,            \* useState: the selected images
  records,           \* useState: the published records
  statusMessage,     \* useState
  statusTone,        \* useState
  isProcessing,      \* useState
  processingSteps,   \* useState
  ocrProgress,       \* useState
  workerRef,         \* useRef: the live worker of the current run
  cancelRequested,   \* useRef (cancelRequestedRef)
  pc,                \* per run: the await the run is suspended at
  run,               \* per run: the locals of processTranscripts, the number of
                     \* recognition calls issued and pending, the (image, row,
                     \* column) of the last one, and how the run ended
  engine,            \* per worker: its state and the terminate() calls made on it
  cancelPc,          \* cancelProcessing: "idle" or suspended at "terminate"
  cancelWorker,      \* cancelProcessing: its local activeWorker
  call               \* a detector applied on its own: its argument and what it returned

component == << images, records, statusMessage, statusTone, isProcessing, processingSteps,
                ocrProgress, workerRef, cancelRequested, pc, run, engine, cancelPc,
                cancelWorker >>

vars == << images, records, statusMessage, statusTone, isProcessing, processingSteps,
           ocrProgress, workerRef, cancelRequested, pc, run, engine, cancelPc,
           cancelWorker, call >>

Runs == 1..MaxRuns

noBounds == [x |-> 0, y |-> 0, width |-> 0, height |-> 0]

noCall == [fn |-> "none"]

idleRun ==
  [images |-> <<>>, worker |-> NoWorker, index |-> 0, rowIndex |-> 0, column |-> 0,
   course |-> emptyCourse("", 0, 0), aggregated |-> <<>>, bounds |-> noBounds,
   rows |-> <<>>, issued |-> 0, inflight |-> 0, lastCall |-> << 0, 0, 0 >>,
   outcome |-> "none"]

(* the function has returned: its locals are gone, its outcome is kept *)
endedRun(rr) == [idleRun EXCEPT !.outcome = rr.outcome]

(* the state of the component when it is mounted *)
mounted ==
  /\ images = <<>>
  /\ records = <<>>
  /\ statusMessage = NoMsg
  /\ statusTone = NoTone
  /\ isProcessing = FALSE
  /\ processingSteps = <<>>
  /\ ocrProgress = NoProgress
  /\ workerRef = NoWorker
  /\ cancelRequested = FALSE
  /\ pc = [r \in Runs |-> "idle"]
  /\ run = [r \in Runs |-> idleRun]
  /\ engine = [w \in Runs |-> [state |-> "none", terminateCalls |-> 0]]
  /\ cancelPc = "idle"
  /\ cancelWorker = NoWorker

Init == mounted /\ call = noCall

(***************************************************************************)
(* The synchronous stretches of processTranscripts between two awaits,     *)
(* as functions on a snapshot s of what the run can change.                *)
(***************************************************************************)
snapshot(r) ==
  [msg |-> statusMessage, tone |-> statusTone, steps |-> processingSteps,
   records |-> records, engine |-> engine, pc |-> pc[r], rr |-> run[r],
   isProcessing |-> isProcessing, ocrProgress |-> ocrProgress, workerRef |-> workerRef]

commit(r, s) ==
  /\ statusMessage' = s.msg
  /\ statusTone' = s.tone
  /\ processingSteps' = s.steps
  /\ records' = s.records
  /\ engine' = s.engine
  /\ pc' = [pc EXCEPT ![r] = s.pc]
  /\ run' = [run EXCEPT ![r] = s.rr]
  /\ isProcessing' = s.isProcessing
  /\ ocrProgress' = s.ocrProgress
  /\ workerRef' = s.workerRef

(* worker.terminate() is called: the engine stops at once *)
terminateEngine(e) == [state |-> "terminated", terminateCalls |-> e.terminateCalls + 1]

(* finally { if (worker) { await worker.terminate(); ... } setIsProcessing(false); ... } *)
(* Of the locals only worker, declared outside the try block, is in scope. *)
finallyRun(s) ==
  IF s.rr.worker # NoWorker
  THEN [s EXCEPT !.engine[s.rr.worker] = terminateEngine(@), !.pc = "terminate",
                 !.rr = [endedRun(s.rr) EXCEPT !.worker = s.rr.worker]]
  ELSE [s EXCEPT !.isProcessing = FALSE, !.ocrProgress = NoProgress, !.pc = "ended",
                 !.rr = endedRun(s.rr)]

(* catch (error) { if (cancelRequestedRef.current) {...} else {...} } *)
catchRun(s) ==
  IF cancelRequested
  THEN [s EXCEPT !.msg = Msg("cancelled", 0), !.tone = "info",
                 !.steps = updateProcessingStep(s.steps, "summary", "error",
                                                Msg("cancelledByUser", 0)),
                 !.rr.outcome = "cancelled"]
  ELSE [s EXCEPT !.msg = Msg("failed", 0), !.tone = "error",
                 !.steps = [i \in DOMAIN s.steps |->
                              IF i = Len(s.steps)
                              THEN [id |-> s.steps[i].id, status |-> "error",
                                    detail |-> Msg("processingError", 0)]
                              ELSE s.steps[i]],
                 !.rr.outcome = "failed"]

throwRun(s) == finallyRun(catchRun(s))

(* the tone of a zero-records completion made the tone of a failure *)
zeroRecordsToneError == "error"

(* setStatusTone("info") of the zero-records branch *)
zeroRecordsTone == "info"

(* after the image loop: publish the records, close the steps *)
completeRun(s) ==
  LET st1 == updateProcessingStep(s.steps, "analyze-images", "done", Msg("tablesLocated", 0))
      st2 == updateProcessingStep(st1, "recognize", "done", Msg("recognitionDone", 0))
      n == Len(s.rr.aggregated)
  IN  finallyRun(
        IF n = 0
        THEN [s EXCEPT !.records = s.rr.aggregated,
                       !.msg = Msg("noRecords", 0), !.tone = zeroRecordsTone,
                       !.steps = updateProcessingStep(st2, "summary", "error", Msg("noValidData", 0)),
                       !.rr.outcome = "empty"]
        ELSE [s EXCEPT !.records = s.rr.aggregated,
                       !.msg = Msg("completed", n), !.tone = "success",
                       !.steps = updateProcessingStep(st2, "summary", "done", Msg("completed", n)),
                       !.rr.outcome = "done"])

(* head of for (index ...): either the next loadImage is awaited or the loop is over *)
loopHead(s) ==
  IF s.rr.index < Len(s.rr.images)
  THEN [s EXCEPT !.steps = updateProcessingStep(@, "analyze-images", "active",
                                                Msg("analyzing", s.rr.index + 1)),
                 !.msg = Msg("analyzing", s.rr.index + 1),
                 !.pc = "loadImage"]
  ELSE completeRun(s)

(* recognizeCell up to its await: the cell canvas context, then worker.recognize *)
issueCell(s, column, ctxOk) ==
  IF ~ctxOk
  THEN throwRun([s EXCEPT !.rr.column = column])
  ELSE [s EXCEPT !.rr.column = column,
                 !.rr.issued = @ + 1,
                 !.rr.lastCall = << s.rr.index, s.rr.rowIndex, column >>,
                 !.rr.inflight = @ + 1,
                 !.pc = "recognize"]

(* for (rowIndex = k ...): skip rows, start the first cell of the next row, *)
(* or go on with the next image                                             *)
rowLoop(s, k, ctxOk) ==
  LET n == nextRowIndex(s.rr.rows, s.rr.bounds, k)
      image == s.rr.images[s.rr.index + 1]
  IN  IF n = -1
      THEN loopHead([s EXCEPT !.rr.index = @ + 1])
      ELSE issueCell([s EXCEPT !.rr.rowIndex = n,
                               !.rr.course = emptyCourse(image.termLabel, s.rr.index, n)],
                     1, ctxOk)

(***************************************************************************)
(* processTranscripts                                                      *)
(***************************************************************************)
(* The button is disabled while isProcessing or without images            *)
(* (primaryDisabled), so the early return on !images.length is not taken.  *)
processTranscripts(r) ==
  /\ UNCHANGED call
  /\ ~isProcessing
  /\ Len(images) > 0
  /\ pc[r] = "idle"
  /\ \A q \in Runs : q < r => pc[q] # "idle"
  /\ isProcessing' = TRUE
  /\ statusTone' = "info"
  /\ statusMessage' = Msg("preparing", 0)
  /\ records' = <<>>
  /\ ocrProgress' = 0
  /\ cancelRequested' = FALSE
  /\ processingSteps' = updateProcessingStep(initialSteps, "init-worker", Keep,
                                             Msg("creatingWorker", 0))
  /\ run' = [run EXCEPT ![r] = [idleRun EXCEPT !.images = images]]
  /\ pc' = [pc EXCEPT ![r] = "createWorker"]
  /\ UNCHANGED << images, workerRef, engine, cancelPc, cancelWorker >>

(* worker = await createWorker(...) returns *)
createWorkerResolved(r) ==
  /\ UNCHANGED call
  /\ pc[r] = "createWorker"
  /\ LET s == snapshot(r)
         st1 == updateProcessingStep(s.steps, "init-worker", "done", Msg("workerReady", 0))
         st2 == updateProcessingStep(st1, "load-language", "active", Msg("loadingModels", 0))
     IN  commit(r, [s EXCEPT !.engine[r] = [state |-> "live", terminateCalls |-> 0],
                             !.rr.worker = r,
                             !.workerRef = r,
                             !.steps = st2,
                             !.pc = "loadLanguage"])
  /\ UNCHANGED << images, cancelRequested, cancelPc, cancelWorker >>

createWorkerRejected(r) ==
  /\ UNCHANGED call
  /\ pc[r] = "createWorker"
  /\ commit(r, throwRun(snapshot(r)))
  /\ UNCHANGED << images, cancelRequested, cancelPc, cancelWorker >>

ConfigCalls == {"loadLanguage", "initialize", "setParameters"}

(* loadLanguage, initialize and setParameters return in turn *)
configResolved(r) ==
  /\ UNCHANGED call
  /\ pc[r] \in ConfigCalls
  /\ engine[run[r].worker].state = "live"
  /\ LET s == snapshot(r)
     IN  commit(r,
           CASE pc[r] = "loadLanguage" -> [s EXCEPT !.pc = "initialize"]
             [] pc[r] = "initialize" -> [s EXCEPT !.pc = "setParameters"]
             [] pc[r] = "setParameters" ->
                  loopHead([s EXCEPT !.steps = updateProcessingStep(s.steps, "load-language",
                                                 "done", Msg("languageLoaded", 0)),
                                     !.rr.aggregated = <<>>,
                                     !.rr.index = 0]))
  /\ UNCHANGED << images, cancelRequested, cancelPc, cancelWorker >>

(* a call on the engine fails; on a terminated engine it can only fail *)
configRejected(r) ==
  /\ UNCHANGED call
  /\ pc[r] \in ConfigCalls
  /\ commit(r, throwRun(snapshot(r)))
  /\ UNCHANGED << images, cancelRequested, cancelPc, cancelWorker >>

ContextFailures == {"none", "scaleContext", "tableContext", "cellContext"}

(* htmlImage = await loadImage(image.file) returns: scale, locate the      *)
(* table, crop it, detect its rows and start on the first row.  failAt     *)
(* names the getContext("2d") call that returns null, if any;              *)
(* getImageData throws on an empty rectangle.                              *)
loadImageResolved(r, failAt) ==
  /\ UNCHANGED call
  /\ pc[r] = "loadImage"
  /\ LET s == snapshot(r)
         image == s.rr.images[s.rr.index + 1]
         tableBounds == fileTable[image.file].bounds
         detected == fileTable[image.file].rows
     IN  commit(r,
           IF failAt = "scaleContext" \/ failAt = "tableContext"
              \/ tableBounds.width = 0 \/ tableBounds.height = 0
           THEN throwRun(s)
           ELSE rowLoop([s EXCEPT !.rr.bounds = tableBounds,
                                  !.rr.rows = detected,
                                  !.steps = updateProcessingStep(s.steps, "recognize", "active",
                                              Msg("recognizing", s.rr.index + 1))],
                        0, failAt # "cellContext"))
  /\ UNCHANGED << images, cancelRequested, cancelPc, cancelWorker >>

loadImageRejected(r) ==
  /\ UNCHANGED call
  /\ pc[r] = "loadImage"
  /\ commit(r, throwRun(snapshot(r)))
  /\ UNCHANGED << images, cancelRequested, cancelPc, cancelWorker >>

(* worker.recognize(cellCanvas) returns text: clean it, store the field,   *)
(* and either recognise the next column or close the row                   *)
recognizeResolved(r, ctxOk) ==
  /\ UNCHANGED call
  /\ pc[r] = "recognize"
  /\ engine[run[r].worker].state = "live"
  /\ LET s == snapshot(r)
         rr == s.rr
         image == rr.images[rr.index + 1]
         columnKey == columnLayout[rr.column].key
     IN  \E text \in OcrTexts(image.file, rr.rowIndex, columnKey) :
           LET rawText == cleanupText(text)
               cleanedText == cleanupText(rawText)
               filled == assignColumn(rr.course, columnKey, cleanedText)
               s1 == [s EXCEPT !.rr.inflight = @ - 1, !.rr.course = filled]
           IN  commit(r,
                 IF rr.column < Len(columnLayout)
                 THEN issueCell(s1, rr.column + 1, ctxOk)
                 ELSE rowLoop([s1 EXCEPT !.rr.aggregated =
                                            IF acceptsCourse(filled)
                                            THEN Append(@, filled) ELSE @],
                              rr.rowIndex + 1, ctxOk))
  /\ UNCHANGED << images, cancelRequested, cancelPc, cancelWorker >>

recognizeRejected(r) ==
  /\ UNCHANGED call
  /\ pc[r] = "recognize"
  /\ commit(r, throwRun([snapshot(r) EXCEPT !.rr.inflight = @ - 1]))
  /\ UNCHANGED << images, cancelRequested, cancelPc, cancelWorker >>

(* the logger passed to createWorker, on a "recognizing text" message *)
loggerProgress(r, progress) ==
  /\ UNCHANGED call
  /\ pc[r] = "recognize"
  /\ engine[run[r].worker].state = "live"
  /\ statusMessage' = Msg("ocrProgress", progress)
  /\ ocrProgress' = progress
  /\ processingSteps' = updateProcessingStep(processingSteps, "recognize", "active",
                                             Msg("ocrProgress", progress))
  /\ UNCHANGED << images, records, statusTone, isProcessing, workerRef, cancelRequested,
                  pc, run, engine, cancelPc, cancelWorker >>

(* await worker.terminate() of the finally block returns (or throws, which *)
(* is caught and logged)                                                   *)
terminateReturned(r) ==
  /\ UNCHANGED call
  /\ pc[r] = "terminate"
  /\ workerRef' = IF workerRef = run[r].worker THEN NoWorker ELSE workerRef
  /\ isProcessing' = FALSE
  /\ ocrProgress' = NoProgress
  /\ pc' = [pc EXCEPT ![r] = "ended"]
  /\ run' = [run EXCEPT ![r] = endedRun(@)]
  /\ UNCHANGED << images, records, statusMessage, statusTone, processingSteps,
                  cancelRequested, engine, cancelPc, cancelWorker >>

(***************************************************************************)
(* cancelProcessing; the cancel control is offered while isProcessing      *)
(***************************************************************************)
cancelProcessing ==
  /\ UNCHANGED call
  /\ isProcessing
  /\ cancelPc = "idle"
  /\ cancelRequested' = TRUE
  /\ IF workerRef # NoWorker
     THEN /\ engine' = [engine EXCEPT ![workerRef] = terminateEngine(@)]
          /\ cancelPc' = "terminate"
          /\ cancelWorker' = workerRef
          /\ UNCHANGED << isProcessing, ocrProgress, statusMessage, statusTone >>
     ELSE /\ isProcessing' = FALSE
          /\ ocrProgress' = NoProgress
          /\ statusMessage' = Msg("cancelRequested", 0)
          /\ statusTone' = "info"
          /\ UNCHANGED << engine, cancelPc, cancelWorker >>
  /\ UNCHANGED << images, records, processingSteps, workerRef, pc, run >>

(* await activeWorker.terminate() of cancelProcessing returns *)
cancelTerminateReturned ==
  /\ UNCHANGED call
  /\ cancelPc = "terminate"
  /\ workerRef' = NoWorker
  /\ isProcessing' = FALSE
  /\ ocrProgress' = NoProgress
  /\ statusMessage' = Msg("cancelRequested", 0)
  /\ statusTone' = "info"
  /\ cancelPc' = "idle"
  /\ cancelWorker' = NoWorker
  /\ UNCHANGED << images, records, processingSteps, cancelRequested, pc, run, engine >>

(***************************************************************************)
(* handleFileSelection, handleRemoveImage                                  *)
(***************************************************************************)
handleFileSelection(files) ==
  /\ UNCHANGED call
  /\ images' = [i \in DOMAIN files |-> uploadedImage(files[i])]
  /\ records' = <<>>
  /\ processingSteps' = <<>>
  /\ statusMessage' = NoMsg
  /\ statusTone' = NoTone
  /\ ocrProgress' = NoProgress
  /\ UNCHANGED << isProcessing, workerRef, cancelRequested, pc, run, engine, cancelPc,
                  cancelWorker >>

(* index is the 0-based position of the image whose button was pressed *)
handleRemoveImage(index) ==
  /\ UNCHANGED call
  /\ index < Len(images)
  /\ images' = SubSeq(images, 1, index) \o SubSeq(images, index + 2, Len(images))
  /\ records' = <<>>
  /\ processingSteps' = <<>>
  /\ statusMessage' = NoMsg
  /\ statusTone' = NoTone
  /\ ocrProgress' = NoProgress
  /\ UNCHANGED << isProcessing, workerRef, cancelRequested, pc, run, engine, cancelPc,
                  cancelWorker >>

(***************************************************************************)
(* Spec: the life of one run of processTranscripts (run 1) under every     *)
(* interleaving with the user's actions and the completions of its awaits. *)
(***************************************************************************)
Next ==
  \/ processTranscripts(1)
  \/ createWorkerResolved(1)
  \/ createWorkerRejected(1)
  \/ configResolved(1)
  \/ configRejected(1)
  \/ \E failAt \in ContextFailures : loadImageResolved(1, failAt)
  \/ loadImageRejected(1)
  \/ \E ctxOk \in BOOLEAN : recognizeResolved(1, ctxOk)
  \/ recognizeRejected(1)
  \/ \E progress \in ProgressValues : loggerProgress(1, progress)
  \/ terminateReturned(1)
  \/ cancelProcessing
  \/ cancelTerminateReturned
  \/ \E files \in FileLists : handleFileSelection(files)
  \/ \E index \in 0..(MaxImages - 1) : handleRemoveImage(index)

Spec == Init /\ [][Next]_vars

(***************************************************************************)
(* SpecConcurrent: up to MaxRuns invocations of processTranscripts, which  *)
(* overlap once cancelProcessing has set isProcessing back to false; the   *)
(* user selects the single file C.                                         *)
(***************************************************************************)
ConcurrentFileLists == { <<"C">> }

NextConcurrent ==
  \/ \E r \in Runs : processTranscripts(r)
  \/ \E r \in Runs : createWorkerResolved(r)
  \/ \E r \in Runs : createWorkerRejected(r)
  \/ \E r \in Runs : configResolved(r)
  \/ \E r \in Runs : configRejected(r)
  \/ \E r \in Runs, failAt \in ContextFailures : loadImageResolved(r, failAt)
  \/ \E r \in Runs : loadImageRejected(r)
  \/ \E r \in Runs, ctxOk \in BOOLEAN : recognizeResolved(r, ctxOk)
  \/ \E r \in Runs : recognizeRejected(r)
  \/ \E r \in Runs, progress \in ProgressValues : loggerProgress(r, progress)
  \/ \E r \in Runs : terminateReturned(r)
  \/ cancelProcessing
  \/ cancelTerminateReturned
  \/ \E files \in ConcurrentFileLists : handleFileSelection(files)
  \/ handleRemoveImage(0)

SpecConcurrent == Init /\ [][NextConcurrent]_vars

(***************************************************************************)
(* SpecRows: detectRows applied to a buffer holding one band of active     *)
(* scanlines, of every height up to MaxBandHeight, with 1..MaxBandTop      *)
(* blank scanlines above it and at least two below; buffers of height 40   *)
(* and 800 (threshold 12) and 1000 (threshold 0.015 * 1000 = 15).          *)
(***************************************************************************)
MaxBandTop == 3
MaxBandHeight == 20

RowSheetHeights == {40, 800, 1000}
RowSheetWidths == {1, 3}

RowSheets ==
  {Sheet(w, h, << Band(top, top + n - 1, 0, w - 1, "ink") >>) :
     w \in RowSheetWidths, h \in RowSheetHeights, top \in 1..MaxBandTop, n \in 1..MaxBandHeight}

InitRows ==
  /\ mounted
  /\ call \in {[fn |-> "detectRows", imageData |-> sheet, returned |-> FALSE, rows |-> <<>>] :
                 sheet \in RowSheets}

detectRowsCall ==
  /\ call.fn = "detectRows"
  /\ ~call.returned
  /\ call' = [call EXCEPT !.rows = detectRows(call.imageData), !.returned = TRUE]
  /\ UNCHANGED component

NextRows == detectRowsCall

SpecRows == InitRows /\ [][NextRows]_vars

(***************************************************************************)
(* SpecScan: detectRows applied to buffers of height ScanHeight holding    *)
(* two inked bands with a gap of up to MaxGap scanlines between them.  A   *)
(* gap scanline is blank or faint (one inked pixel: at width 80 a ratio of *)
(* 0.0125, between the two thresholds), scanline 0 is blank or faint, and  *)
(* the second band ends before the buffer does or runs to its end.         *)
(***************************************************************************)
MaxGap == 3
ScanHeight == 40

ScanWidths == {1, 80}
FirstBandHeights == {5, 14}
SecondBandHeights == {1, 14}

(* scanlines lo..hi with their first pixel inked *)
faintLines(lo, hi) == [k \in 1..(hi - lo + 1) |-> Band(lo + k - 1, lo + k - 1, 0, 0, "ink")]

scanSheet(w, top, n1, gap, faintGap, n2, faintLead, open) ==
  Sheet(w, ScanHeight,
        << Band(top, top + n1 - 1, 0, w - 1, "ink"),
           Band(top + n1 + gap,
                IF open THEN ScanHeight - 1 ELSE top + n1 + gap + n2 - 1, 0, w - 1, "ink") >>
        \o (IF faintGap THEN faintLines(top + n1, top + n1 + gap - 1) ELSE << >>)
        \o (IF faintLead THEN faintLines(0, 0) ELSE << >>))

InitScan ==
  /\ mounted
  /\ \E w \in ScanWidths, top \in 1..2, n1 \in FirstBandHeights, gap \in 0..MaxGap,
        faintGap \in BOOLEAN, n2 \in SecondBandHeights, faintLead \in BOOLEAN,
        open \in BOOLEAN :
       call = [fn |-> "detectRows",
               imageData |-> scanSheet(w, top, n1, gap, faintGap, n2, faintLead, open),
               returned |-> FALSE, rows |-> <<>>]

SpecScan == InitScan /\ [][NextRows]_vars

(***************************************************************************)
(* SpecClosing: detectRows applied to buffers of height ScanHeight holding *)
(* one band (a green or mint header band, or an inked one) and, on the     *)
(* scanlines below it down to a last one, up to MaxSpecks coloured pixels; *)
(* at width 100 one pixel is a ratio of 0.01 (quiet), two are 0.02; at     *)
(* width 200 three are 0.015, neither quiet nor opening.  The band's       *)
(* scanlines have ratios of 1.  A scanline below the band closes the row,  *)
(* or none does and the row is closed at the end of the buffer.            *)
(***************************************************************************)
MaxSpecks == 3
ClosingBandHeight == 14

ClosingWidths == {1, 100, 200}
ClosingColours == {"green", "mint", "ink"}

(* scanlines lo..hi with their first count pixels in the colour *)
speckLines(lo, hi, count, colour) ==
  IF count = 0 THEN << >>
  ELSE [k \in 1..(hi - lo + 1) |-> Band(lo + k - 1, lo + k - 1, 0, count - 1, colour)]

closingSheet(w, colour, count, speck, last) ==
  Sheet(w, ScanHeight,
        << Band(1, ClosingBandHeight, 0, w - 1, colour) >>
        \o speckLines(ClosingBandHeight + 1, last, count, speck))

InitClosing ==
  /\ mounted
  /\ \E w \in ClosingWidths, colour \in ClosingColours, count \in 0..MaxSpecks,
        speck \in ClosingColours,
        last \in {ClosingBandHeight + 1, ClosingBandHeight + 2, ScanHeight - 1} :
       call = [fn |-> "detectRows",
               imageData |-> closingSheet(w, colour, count, speck, last),
               returned |-> FALSE, rows |-> <<>>]

SpecClosing == InitClosing /\ [][NextRows]_vars

(***************************************************************************)
(* SpecBounds: detectTableBounds applied to buffers of every size up to    *)
(* MaxSide, and of sizes whose paddings (2% of the height, 1% of the       *)
(* width) are not zero.  A buffer holds one band, marker-coloured (green,  *)
(* mint), inked or near white (paper), placed on its edges or its middle,  *)
(* and possibly an inked rule on its last scanline.                        *)
(***************************************************************************)
MaxSide == 3

BoundsSheetWidths == (1..MaxSide) \cup {25, 60}
BoundsSheetHeights == (1..MaxSide) \cup {30}
BandColours == {"green", "mint", "ink", "paper"}

edges(n) == {0, 1, n \div 2, n - 1} \cap (0..(n - 1))

BoundsSheets ==
  UNION {
    {Sheet(w, h, << Band(top, bottom, x0, x1, colour) >> \o rule) :
       top \in edges(h), bottom \in edges(h), x0 \in edges(w), x1 \in edges(w),
       colour \in BandColours,
       rule \in {<< >>, << Band(h - 1, h - 1, 0, w - 1, "ink") >>}} :
    w \in BoundsSheetWidths, h \in BoundsSheetHeights}

InitBounds ==
  /\ mounted
  /\ call \in {[fn |-> "detectTableBounds", imageData |-> sheet, returned |-> FALSE,
                bounds |-> noBounds] : sheet \in BoundsSheets}

detectTableBoundsCall ==
  /\ call.fn = "detectTableBounds"
  /\ ~call.returned
  /\ call' = [call EXCEPT !.bounds = detectTableBounds(call.imageData), !.returned = TRUE]
  /\ UNCHANGED component

NextBounds == detectTableBoundsCall

SpecBounds == InitBounds /\ [][NextBounds]_vars

(***************************************************************************)
(* SpecVersions: the earlier and the current detectTableBounds applied to  *)
(* the same buffer: two scanlines high, of every width up to MaxWidth and  *)
(* of width 200 (padding 2), holding a marker-coloured or inked band over  *)
(* the columns x0..x1.                                                     *)
(***************************************************************************)
MaxWidth == 8

VersionWidths == (1..MaxWidth) \cup {200}

InitVersions ==
  /\ mounted
  /\ \E w \in VersionWidths, colour \in {"green", "ink"} :
       \E x0 \in (0..(MaxWidth - 1)) \cup {150, 199}, x1 \in (0..(MaxWidth - 1)) \cup {160, 199} :
         /\ x0 <= x1 /\ x1 < w
         /\ call = [fn |-> "detectTableBoundsVersions",
                    imageData |-> Sheet(w, 2, << Band(0, 1, x0, x1, colour) >>),
                    returned |-> FALSE, earlier |-> noBounds, bounds |-> noBounds]

detectTableBoundsVersions ==
  /\ call.fn = "detectTableBoundsVersions"
  /\ ~call.returned
  /\ call' = [call EXCEPT !.earlier = detectTableBoundsEarlier(call.imageData),
                          !.bounds = detectTableBounds(call.imageData),
                          !.returned = TRUE]
  /\ UNCHANGED component

NextVersions == detectTableBoundsVersions

SpecVersions == InitVersions /\ [][NextVersions]_vars

(***************************************************************************)
(* Arithmetic on the numbers of a record.  Sums and products of decimals   *)
(* are decimals; a quotient is kept as a fraction in lowest terms.         *)
(***************************************************************************)
RECURSIVE Pow10(_)
Pow10(e) == IF e = 0 THEN 1 ELSE 10 * Pow10(e - 1)

RECURSIVE GCD(_, _)
GCD(a, b) == IF b = 0 THEN a ELSE GCD(b, a % b)

Dec(n, e) == canonical(n, e)

decAdd(a, b) ==
  canonical(a.n * Pow10(Max2(a.e, b.e) - a.e) + b.n * Pow10(Max2(a.e, b.e) - b.e),
            Max2(a.e, b.e))

decMul(a, b) == canonical(a.n * b.n, a.e + b.e)

(* a >= b *)
decGE(a, b) == a.n * Pow10(b.e) >= b.n * Pow10(a.e)

(* a > b, for the tier tests made strict *)
decGT(a, b) == a.n * Pow10(b.e) > b.n * Pow10(a.e)

zeroQuotient == [num |-> 0, den |-> 1]

(* a / b for b > 0 *)
divide(a, b) ==
  [num |-> (a.n * Pow10(b.e)) \div GCD(a.n * Pow10(b.e), b.n * Pow10(a.e)),
   den |-> (b.n * Pow10(a.e)) \div GCD(a.n * Pow10(b.e), b.n * Pow10(a.e))]

(* const defaultGpaRules *)
defaultGpaRules == [gradeA |-> Dec(80, 0), gradeB |-> Dec(70, 0), gradeC |-> Dec(60, 0)]

(* calculateGpa with exclusive tier boundaries *)
calculateGpaExclusive(score, credits, rules) ==
  IF ~NumberIsFinite(score) \/ ~NumberIsFinite(credits) THEN Dec(0, 0)
  ELSE IF decGT(score, rules.gradeA) THEN decMul(Dec(4, 0), credits)
  ELSE IF decGT(score, rules.gradeB) THEN decMul(Dec(3, 0), credits)
  ELSE IF decGT(score, rules.gradeC) THEN decMul(Dec(2, 0), credits)
  ELSE Dec(0, 0)

calculateGpa(score, credits, rules) ==
  IF ~NumberIsFinite(score) \/ ~NumberIsFinite(credits) THEN Dec(0, 0)
  ELSE IF decGE(score, rules.gradeA) THEN decMul(Dec(4, 0), credits)
  ELSE IF decGE(score, rules.gradeB) THEN decMul(Dec(3, 0), credits)
  ELSE IF decGE(score, rules.gradeC) THEN decMul(Dec(2, 0), credits)
  ELSE Dec(0, 0)

(* record.credits as a condition: neither null nor 0 *)
truthyNumber(x) == ~x.isNull /\ x.n # 0

(* the test that counts a record into the average, with the credits test  *)
(* of the weighted sums                                                    *)
countsCourseCredited(record) == truthyNumber(record.credits) /\ ~record.score.isNull

(* if (record.score !== null) countedCourses += 1 *)
countsCourse(record) == ~record.score.isNull

(* one iteration of for (const record of records) *)
summaryStep(acc, record, rules) ==
  [creditSum |->
     IF truthyNumber(record.credits) /\ ~record.score.isNull
     THEN decAdd(acc.creditSum, record.credits) ELSE acc.creditSum,
   weightedScore |->
     IF truthyNumber(record.credits) /\ ~record.score.isNull
     THEN decAdd(acc.weightedScore, decMul(record.score, record.credits))
     ELSE acc.weightedScore,
   gpaSum |->
     IF truthyNumber(record.credits) /\ ~record.score.isNull
     THEN decAdd(acc.gpaSum, calculateGpa(record.score, record.credits, rules))
     ELSE acc.gpaSum,
   countedCourses |->
     IF countsCourse(record) THEN acc.countedCourses + 1 ELSE acc.countedCourses]

RECURSIVE summaryLoop(_, _, _)
summaryLoop(list, rules, n) ==
  IF n = 0
  THEN [creditSum |-> Dec(0, 0), weightedScore |-> Dec(0, 0), gpaSum |-> Dec(0, 0),
        countedCourses |-> 0]
  ELSE summaryStep(summaryLoop(list, rules, n - 1), list[n], rules)

(* records.reduce((acc, current) => acc + (current.score ?? 0), 0) *)
RECURSIVE scoreTotal(_, _)
scoreTotal(list, n) ==
  IF n = 0 THEN Dec(0, 0)
  ELSE decAdd(scoreTotal(list, n - 1),
              IF list[n].score.isNull THEN Dec(0, 0) ELSE list[n].score)

(* const summary = useMemo(...) *)
summary(list, rules) ==
  IF Len(list) = 0
  THEN [totalCredits |-> Dec(0, 0), weightedScore |-> zeroQuotient,
        averageScore |-> zeroQuotient, gpa |-> zeroQuotient]
  ELSE CHOOSE result \in
         {[totalCredits |-> acc.creditSum,
           weightedScore |-> IF acc.creditSum.n > 0
                             THEN divide(acc.weightedScore, acc.creditSum)
                             ELSE zeroQuotient,
           averageScore |-> IF acc.countedCourses # 0
                            THEN divide(scoreTotal(list, Len(list)),
                                        Dec(acc.countedCourses, 0))
                            ELSE zeroQuotient,
           gpa |-> IF acc.creditSum.n > 0
                   THEN divide(acc.gpaSum, acc.creditSum)
                   ELSE zeroQuotient] :
            acc \in {summaryLoop(list, rules, Len(list))}} : TRUE

(***************************************************************************)
(* SpecSummary: the summary memo applied to every list of up to MaxRecords *)
(* records whose credits and score are null, zero or a few positive        *)
(* numbers, under the default rules and under one other set of rules.      *)
(***************************************************************************)
MaxRecords == 3

SummaryCredits == {NullNumber, Dec(0, 0), Dec(2, 0), Dec(3, 0)}
SummaryScores == {NullNumber, Dec(0, 0), Dec(85, 0), Dec(90, 0)}
SummaryRules == {defaultGpaRules,
                 [gradeA |-> Dec(90, 0), gradeB |-> Dec(85, 0), gradeC |-> Dec(60, 0)]}

(* the record of row k of file A, with the two numeric cells read *)
gradedCourse(k, credits, score) ==
  [emptyCourse("A", 0, k) EXCEPT !.credits = credits, !.score = score]

(* the list read from cells: one << credits, score >> pair per record *)
gradedList(cells) ==
  [k \in 1..Len(cells) |-> gradedCourse(k, cells[k][1], cells[k][2])]

noSummary ==
  [totalCredits |-> Dec(0, 0), weightedScore |-> zeroQuotient,
   averageScore |-> zeroQuotient, gpa |-> zeroQuotient]

InitSummary ==
  /\ mounted
  /\ \E n \in 0..MaxRecords :
       \E cells \in [1..n -> SummaryCredits \X SummaryScores] :
         \E rules \in SummaryRules :
           call = [fn |-> "summary", records |-> gradedList(cells), gpaRules |-> rules,
                   returned |-> FALSE, summary |-> noSummary]

summaryMemo ==
  /\ call.fn = "summary"
  /\ ~call.returned
  /\ call' = [call EXCEPT !.summary = summary(call.records, call.gpaRules),
                          !.returned = TRUE]
  /\ UNCHANGED component

NextSummary == summaryMemo

SpecSummary == InitSummary /\ [][NextSummary]_vars

(***************************************************************************)
(* sortedRecords                                                           *)
(***************************************************************************)
(* the UTF-16 code unit of a character, which is what < on strings compares *)
codeUnit(c) ==
  CASE c = " " -> 32 [] c = "." -> 46
    [] c \in Digits -> 48 + digitValue(c)
    [] c = "A" -> 65 [] c = "B" -> 66 [] c = "C" -> 67
    [] c = "a" -> 97 [] c = "b" -> 98 [] c = "c" -> 99

(* String.prototype.toLowerCase, a character at a time *)
lowerChar(c) ==
  CASE c = "A" -> "a" [] c = "B" -> "b" [] c = "C" -> "c" [] OTHER -> c

toLowerCase(text) == [k \in 1..Len(text) |-> lowerChar(text[k])]

digitChar(d) == CHOOSE c \in Digits : digitValue(c) = d

RECURSIVE digitsText(_)
digitsText(n) ==
  IF n < 10 THEN << digitChar(n) >> ELSE digitsText(n \div 10) \o << digitChar(n % 10) >>

(* the last e digits of n, zeros included *)
RECURSIVE fractionText(_, _)
fractionText(n, e) ==
  IF e = 0 THEN <<>> ELSE fractionText(n \div 10, e - 1) \o << digitChar(n % 10) >>

(* `${value}` and value.toString() of a finite non-negative number: in     *)
(* decimal notation from 0.000001 on, in exponent notation (1e-7, 1.5e-7)  *)
(* below it                                                                *)
numberText(x) ==
  LET digits == digitsText(x.n)
  IN  IF x.e = 0 THEN digits
      ELSE IF Len(digits) - x.e > -6
      THEN digitsText(x.n \div Pow10(x.e)) \o << "." >>
             \o fractionText(x.n % Pow10(x.e), x.e)
      ELSE << Head(digits) >>
             \o (IF Len(digits) > 1 THEN << "." >> \o Tail(digits) ELSE << >>)
             \o << "e", "-" >> \o digitsText(x.e + 1 - Len(digits))

(* aText < bText *)
RECURSIVE textLess(_, _)
textLess(s, t) ==
  IF t = <<>> THEN FALSE
  ELSE IF s = <<>> THEN TRUE
  ELSE IF codeUnit(Head(s)) # codeUnit(Head(t)) THEN codeUnit(Head(s)) < codeUnit(Head(t))
  ELSE textLess(Tail(s), Tail(t))

NumericKeys == {"credits", "score"}

(* a[sortKey] *)
keyValue(record, sortKey) ==
  CASE sortKey = "credits" -> record.credits
    [] sortKey = "score" -> record.score
    [] sortKey = "courseName" -> record.courseName
    [] sortKey = "courseNumber" -> record.courseNumber

(* typeof value === "number" *)
isNumberValue(record, sortKey) ==
  sortKey \in NumericKeys /\ ~keyValue(record, sortKey).isNull

(* `${value ?? ""}`.toLowerCase() *)
keyText(record, sortKey) ==
  IF sortKey \in NumericKeys
  THEN IF keyValue(record, sortKey).isNull THEN <<>>
       ELSE numberText(keyValue(record, sortKey))
  ELSE toLowerCase(keyValue(record, sortKey))

(* the sign of a - b *)
decSign(a, b) == IF decGT(a, b) THEN 1 ELSE IF decGT(b, a) THEN -1 ELSE 0

(* the compare function handed to clone.sort, as the sign of what it returns *)
compareRecords(a, b, sortKey, sortDirection) ==
  LET direction == IF sortDirection = "asc" THEN 1 ELSE -1
  IN  IF isNumberValue(a, sortKey) /\ isNumberValue(b, sortKey)
      THEN direction * decSign(keyValue(a, sortKey), keyValue(b, sortKey))
      ELSE IF textLess(keyText(a, sortKey), keyText(b, sortKey)) THEN (-1) * direction
      ELSE IF textLess(keyText(b, sortKey), keyText(a, sortKey)) THEN direction
      ELSE 0

(* element also moves behind a record that compares equal to it *)
goesBehindOrLevel(element, record, sortKey, sortDirection) ==
  compareRecords(element, record, sortKey, sortDirection) >= 0

(* element compares greater than record, and so goes behind it *)
goesBehind(element, record, sortKey, sortDirection) ==
  compareRecords(element, record, sortKey, sortDirection) > 0

(* how many of the last elements of sorted go behind record *)
RECURSIVE fallsBehind(_, _, _, _)
fallsBehind(sorted, record, sortKey, sortDirection) ==
  IF sorted = <<>> THEN 0
  ELSE IF goesBehind(sorted[Len(sorted)], record, sortKey, sortDirection)
  THEN 1 + fallsBehind(SubSeq(sorted, 1, Len(sorted) - 1), record, sortKey, sortDirection)
  ELSE 0

(* record put into a sorted list, after the elements that do not compare   *)
(* greater than it                                                         *)
insertRecord(sorted, record, sortKey, sortDirection) ==
  CHOOSE out \in
    {SubSeq(sorted, 1, Len(sorted) - behind) \o << record >>
       \o SubSeq(sorted, Len(sorted) - behind + 1, Len(sorted)) :
       behind \in {fallsBehind(sorted, record, sortKey, sortDirection)}} : TRUE

(* Array.prototype.sort is a stable sort *)
RECURSIVE arraySort(_, _, _, _)
arraySort(list, n, sortKey, sortDirection) ==
  IF n = 0 THEN <<>>
  ELSE CHOOSE out \in
         {insertRecord(sorted, list[n], sortKey, sortDirection) :
            sorted \in {arraySort(list, n - 1, sortKey, sortDirection)}} : TRUE

(* const sortedRecords = useMemo(...) *)
sortedRecords(list, sortKey, sortDirection) ==
  arraySort(list, Len(list), sortKey, sortDirection)

(***************************************************************************)
(* SpecSort: sortedRecords applied to every list of up to MaxSorted        *)
(* records drawn from SortCells, by a numeric and by a text key, in both   *)
(* directions.                                                             *)
(***************************************************************************)
MaxSorted == 3

(* << credits, score, courseName >> *)
SortCells ==
  { << NullNumber, Dec(90, 0), << "a" >> >>,
    << Dec(0, 0), NullNumber, << "A" >> >>,
    << Dec(0, 0), Dec(90, 0), << "B" >> >>,
    << Dec(2, 0), Dec(0, 0), << "b" >> >>,
    << Dec(10, 0), NullNumber, << "a", "b" >> >>,
    << NullNumber, Dec(85, 0), << "B" >> >> }

SortKeys == {"credits", "score", "courseName"}
SortDirections == {"asc", "desc"}

namedList(cells) ==
  [k \in 1..Len(cells) |->
     [gradedCourse(k, cells[k][1], cells[k][2]) EXCEPT !.courseName = cells[k][3]]]

InitSort ==
  /\ mounted
  /\ \E n \in 0..MaxSorted :
       \E cells \in [1..n -> SortCells] :
         \E sortKey \in SortKeys, sortDirection \in SortDirections :
           call = [fn |-> "sortedRecords", records |-> namedList(cells),
                   sortKey |-> sortKey, sortDirection |-> sortDirection,
                   returned |-> FALSE, sortedRecords |-> <<>>]

sortedRecordsMemo ==
  /\ call.fn = "sortedRecords"
  /\ ~call.returned
  /\ call' = [call EXCEPT
                !.sortedRecords = sortedRecords(call.records, call.sortKey,
                                                call.sortDirection),
                !.returned = TRUE]
  /\ UNCHANGED component

NextSort == sortedRecordsMemo

SpecSort == InitSort /\ [][NextSort]_vars

(***************************************************************************)
(* SpecGpa: calculateGpa applied to scores on, just below and away from    *)
(* the tier boundaries, to whole and fractional credits, to non-finite     *)
(* arguments, under rules in descending order and under rules that are not.*)
(***************************************************************************)
GpaScores ==
  {Dec(0, 0), Dec(59, 0), Dec(5999, 2), Dec(60, 0), Dec(6999, 2), Dec(70, 0),
   Dec(7999, 2), Dec(80, 0), Dec(85, 0), Dec(100, 0), NotANumber, PlusInfinity}
GpaCredits == {Dec(0, 0), Dec(1, 0), Dec(3, 0), Dec(5, 1), NotANumber, PlusInfinity}
GpaRuleSets ==
  {defaultGpaRules,
   [gradeA |-> Dec(90, 0), gradeB |-> Dec(85, 0), gradeC |-> Dec(60, 0)],
   [gradeA |-> Dec(60, 0), gradeB |-> Dec(70, 0), gradeC |-> Dec(80, 0)]}

InitGpa ==
  /\ mounted
  /\ \E score \in GpaScores, credits \in GpaCredits, rules \in GpaRuleSets :
       call = [fn |-> "calculateGpa", score |-> score, credits |-> credits,
               rules |-> rules, returned |-> FALSE, points |-> Dec(0, 0)]

calculateGpaCall ==
  /\ call.fn = "calculateGpa"
  /\ ~call.returned
  /\ call' = [call EXCEPT !.points = calculateGpa(call.score, call.credits, call.rules),
                          !.returned = TRUE]
  /\ UNCHANGED component

NextGpa == calculateGpaCall

SpecGpa == InitGpa /\ [][NextGpa]_vars

(***************************************************************************)
(* SpecParse: parseNumber applied to every string of up to MaxText         *)
(* characters of ParseChars (digits, the dot, a minus sign, a space, an em *)
(* dash) and to the cell text "87.5 u5206".                                *)
(***************************************************************************)
MaxText == 4

ParseChars == {"0", "5", "8", ".", "-", " ", "u2014"}
ParseExamples == { << "8", "7", ".", "5", " ", "u5206" >> }

InitParse ==
  /\ mounted
  /\ \/ \E n \in 0..MaxText : \E text \in [1..n -> ParseChars] :
          call = [fn |-> "parseNumber", value |-> text, returned |-> FALSE,
                  result |-> NullNumber]
     \/ \E text \in ParseExamples :
          call = [fn |-> "parseNumber", value |-> text, returned |-> FALSE,
                  result |-> NullNumber]

parseNumberCall ==
  /\ call.fn = "parseNumber"
  /\ ~call.returned
  /\ call' = [call EXCEPT !.result = parseNumber(call.value), !.returned = TRUE]
  /\ UNCHANGED component

NextParse == parseNumberCall

SpecParse == InitParse /\ [][NextParse]_vars

(***************************************************************************)
(* scaleImage                                                              *)
(***************************************************************************)
MAX_IMAGE_DIMENSION == 2400

(* the scaled side cut down to a whole number instead of rounded *)
scaledSidesFloor(side, longest) ==
  IF longest <= MAX_IMAGE_DIMENSION THEN {side}
  ELSE {(side * MAX_IMAGE_DIMENSION) \div longest}

(* Math.round(side * scale) with scale = Math.min(1, 2400 / longest).  The *)
(* product is a binary floating-point number: where side * 2400 / longest  *)
(* is exactly half way between two integers it can come out just below the *)
(* half (11 * (2400 / 3520) is 7.499999999999999) and round down, or on    *)
(* the half and round up.                                                  *)
scaledSides(side, longest) ==
  IF longest <= MAX_IMAGE_DIMENSION THEN {side}
  ELSE IF (2 * side * MAX_IMAGE_DIMENSION) % longest = 0
          /\ ((2 * side * MAX_IMAGE_DIMENSION) \div longest) % 2 = 1
  THEN {(side * MAX_IMAGE_DIMENSION) \div longest,
        (side * MAX_IMAGE_DIMENSION) \div longest + 1}
  ELSE {MathRound(side * MAX_IMAGE_DIMENSION, longest)}

(***************************************************************************)
(* SpecScale: scaleImage applied to images whose sides are small, just     *)
(* below, on and just above the limit, and well above it.                  *)
(***************************************************************************)
NaturalSides == {1, 2, 11, 1000, 2399, 2400, 2401, 3000, 3520, 4800, 7201}

InitScale ==
  /\ mounted
  /\ \E w \in NaturalSides, h \in NaturalSides :
       call = [fn |-> "scaleImage", naturalWidth |-> w, naturalHeight |-> h,
               returned |-> FALSE, width |-> 0, height |-> 0]

scaleImageCall ==
  /\ call.fn = "scaleImage"
  /\ ~call.returned
  /\ \E width \in scaledSides(call.naturalWidth, Max2(call.naturalWidth, call.naturalHeight)),
        height \in scaledSides(call.naturalHeight,
                               Max2(call.naturalWidth, call.naturalHeight)) :
       call' = [call EXCEPT !.width = width, !.height = height, !.returned = TRUE]
  /\ UNCHANGED component

NextScale == scaleImageCall

SpecScale == InitScale /\ [][NextScale]_vars

(***************************************************************************)
(* The cell rectangle of a row and a column                                *)
(*                                                                         *)
(* bounds.width * column.start is a product of doubles.  A fraction p/100  *)
(* is held as the nearest double, p/100 + excess / (100 * 2^scale); the    *)
(* product is rounded to the nearest double again.  Where width * p / 100  *)
(* is not an integer it lies at least 1/100 from one, so that floor and    *)
(* ceil are those of the exact product; where it is an integer k, the      *)
(* rounded product is k or its neighbour double on the side of the excess. *)
(***************************************************************************)
doubleLiteral(pct) ==
  CASE pct = 10 -> [excess |-> 40, scale |-> 56]
    [] pct = 18 -> [excess |-> -24, scale |-> 55]
    [] pct = 32 -> [excess |-> 12, scale |-> 54]
    [] pct = 56 -> [excess |-> 48, scale |-> 53]
    [] pct = 66 -> [excess |-> 28, scale |-> 53]
    [] pct = 72 -> [excess |-> -24, scale |-> 53]
    [] pct = 78 -> [excess |-> 24, scale |-> 53]
    [] pct = 86 -> [excess |-> -12, scale |-> 53]
    [] OTHER -> [excess |-> 0, scale |-> 53]

(* the exponent of the double k: 2^e <= k < 2^(e + 1) *)
binaryExponent(k) == CHOOSE e \in 0..30 : 2^e <= k /\ k < 2^(e + 1)

(* Math.floor and Math.ceil of the double width * (pct / 100) *)
doubleProduct(width, pct) ==
  LET literal == doubleLiteral(pct)
      k == (width * pct) \div 100
  IN  IF (width * pct) % 100 # 0 THEN [floor |-> k, ceil |-> k + 1]
      ELSE IF k = 0 \/ literal.excess = 0 THEN [floor |-> k, ceil |-> k]
      ELSE LET above == binaryExponent(k)
               below == IF k = 2^above THEN above - 1 ELSE above
           IN  IF literal.excess > 0
               THEN [floor |-> k,
                     ceil |-> IF 2 * width * literal.excess
                                   > 100 * 2^(above + literal.scale - 52)
                              THEN k + 1 ELSE k]
               ELSE [floor |-> IF 2 * width * (0 - literal.excess)
                                    > 100 * 2^(below + literal.scale - 52)
                               THEN k - 1 ELSE k,
                     ceil |-> k]

(* the cell rectangle with its last pixel column counted twice: ex - sx + 1 *)
cellRectangleInclusive(bounds, row, column) ==
  LET sx == Max2(0, doubleProduct(bounds.width, column.start).floor)
      ex == Min2(bounds.width, doubleProduct(bounds.width, column.end).ceil)
  IN  [sx |-> sx, sy |-> Max2(0, row.top),
       sw |-> Max2(1, ex - sx + 1), sh |-> Max2(1, row.bottom - row.top)]

(* sx, ex, sw, sy, sh of the column loop: the arguments of recognizeCell *)
cellRectangle(bounds, row, column) ==
  LET sx == Max2(0, doubleProduct(bounds.width, column.start).floor)
      ex == Min2(bounds.width, doubleProduct(bounds.width, column.end).ceil)
  IN  [sx |-> sx, sy |-> Max2(0, row.top),
       sw |-> Max2(1, ex - sx), sh |-> Max2(1, row.bottom - row.top)]

(* the rectangles the row loop hands to recognizeCell: for each row it    *)
(* does not skip, one per column of columnLayout                           *)
rowCells(rows, bounds) ==
  [k \in 1..Len(rows) |->
     IF skipsRow(rows[k], bounds) THEN << >>
     ELSE [c \in 1..Len(columnLayout) |-> cellRectangle(bounds, rows[k], columnLayout[c])]]

(***************************************************************************)
(* SpecCells: the row loop's rectangles for table buffers of every width   *)
(* up to MaxCellWidth and of widths at which a column edge falls on a      *)
(* whole pixel (multiples of 25 and 50), holding one inked band of a       *)
(* height the row loop skips (14), or keeps (18, 30).                      *)
(***************************************************************************)
MaxCellWidth == 12
MaxCellTop == 2

CellWidths == (1..MaxCellWidth) \cup {25, 50, 75, 100, 125}
CellHeights == {40, 60}
CellBandHeights == {14, 18, 30}

InitCells ==
  /\ mounted
  /\ \E w \in CellWidths, h \in CellHeights, top \in 1..MaxCellTop, n \in CellBandHeights :
       call = [fn |-> "recognizeCells",
               tableData |-> Sheet(w, h, << Band(top, top + n - 1, 0, w - 1, "ink") >>),
               returned |-> FALSE, rows |-> << >>, cells |-> << >>]

(* const rows = detectRows(tableData), then the row and column loops *)
recognizeCellsCall ==
  /\ call.fn = "recognizeCells"
  /\ ~call.returned
  /\ \E rows \in {detectRows(call.tableData)} :
       call' = [call EXCEPT
                  !.rows = rows,
                  !.cells = rowCells(rows, [x |-> 0, y |-> 0,
                                            width |-> call.tableData.width,
                                            height |-> call.tableData.height]),
                  !.returned = TRUE]
  /\ UNCHANGED component

NextCells == recognizeCellsCall

SpecCells == InitCells /\ [][NextCells]_vars

(***************************************************************************)
(* The GPA threshold inputs                                                *)
(***************************************************************************)
RuleKeys == {"gradeA", "gradeB", "gradeC"}

asciiDigits == << "0", "1", "2", "3", "4", "5", "6", "7", "8", "9" >>
(* the full-width digits U+FF10..U+FF19 *)
fullWidthDigits ==
  << "uFF10", "uFF11", "uFF12", "uFF13", "uFF14", "uFF15", "uFF16", "uFF17", "uFF18",
     "uFF19" >>
(* the full-width full stop and the ideographic full stop *)
fullWidthDots == {"uFF0E", "u3002"}

(* .replace(/[．。]/g, ".").replace(/[０-９]/g, ...) on one character *)
halfWidth(c) ==
  IF c \in fullWidthDots THEN "."
  ELSE IF \E d \in 1..10 : fullWidthDigits[d] = c
  THEN asciiDigits[CHOOSE d \in 1..10 : fullWidthDigits[d] = c]
  ELSE c

(* the loop of normalizeDecimalInput: digits are kept, and the first "." *)
RECURSIVE keepDecimal(_, _)
keepDecimal(text, hasDecimalPoint) ==
  IF text = << >> THEN << >>
  ELSE IF Head(text) \in Digits
  THEN << Head(text) >> \o keepDecimal(Tail(text), hasDecimalPoint)
  ELSE IF Head(text) = "." /\ ~hasDecimalPoint
  THEN << "." >> \o keepDecimal(Tail(text), TRUE)
  ELSE keepDecimal(Tail(text), hasDecimalPoint)

normalizeDecimalInput(raw) ==
  LET collapsedWhitespace == dropSeq(raw, WhiteSpace)
      normalizedDigits == [k \in 1..Len(collapsedWhitespace) |->
                             halfWidth(collapsedWhitespace[k])]
  IN  keepDecimal(normalizedDigits, FALSE)

(* decimalInputPattern.test(text): nothing, or digits and optionally a "." *)
(* and digits after them, or a "." and optionally digits                   *)
decimalInputPattern(text) ==
  LET whole == leadingDigits(text)
      rest == SubSeq(text, Len(whole) + 1, Len(text))
  IN  \/ rest = << >>
      \/ Head(rest) = "." /\ leadingDigits(Tail(rest)) = Tail(rest)

(* the component's gpaRules and gpaRuleInputValues after                  *)
(* handleRuleInputChange(key, rawValue)                                    *)
changedRuleInput(form, key, rawValue) ==
  LET normalized == normalizeDecimalInput(rawValue)
      parsed == parseFloatDecimal(normalized)
  IN  IF ~decimalInputPattern(normalized) THEN form
      ELSE [gpaRules |->
              IF normalized = << >> \/ normalized = << "." >> \/ NumberIsNaN(parsed)
              THEN form.gpaRules
              ELSE [form.gpaRules EXCEPT ![key] = parsed],
            gpaRuleInputValues |-> [form.gpaRuleInputValues EXCEPT ![key] = normalized]]

(* the same after commitRuleInput(key) *)
committedRuleInput(form, key) ==
  LET normalized == normalizeDecimalInput(form.gpaRuleInputValues[key])
      parsed == parseFloatDecimal(normalized)
  IN  IF normalized = << >> \/ NumberIsNaN(parsed)
      THEN [form EXCEPT !.gpaRuleInputValues[key] = numberText(form.gpaRules[key])]
      ELSE [gpaRules |-> [form.gpaRules EXCEPT ![key] = parsed],
            gpaRuleInputValues |->
              [form.gpaRuleInputValues EXCEPT ![key] = numberText(parsed)]]

(***************************************************************************)
(* SpecRules: the three threshold inputs under every sequence of changes   *)
(* and commits.  A change carries a text of up to MaxRuleText characters   *)
(* out of "7" and ".", or one of: a number below 0.000001, a text with a   *)
(* letter, one with blanks, one in full-width characters.                  *)
(***************************************************************************)
MaxRuleText == 2

RuleExamples ==
  { << ".", "0", "0", "0", "0", "0", "0", "1" >>,
    << "7", "a" >>,
    << " ", "8", " ", "5" >>,
    << "uFF17", "uFF0E", "5" >> }

RuleTexts == UNION {[1..n -> {"7", "."}] : n \in 0..MaxRuleText} \cup RuleExamples

noEvent == [handler |-> "none", key |-> "", rawValue |-> << >>]

InitRules ==
  /\ mounted
  /\ call = [fn |-> "gpaRuleInputs",
             gpaRules |-> defaultGpaRules,
             gpaRuleInputValues |-> [key \in RuleKeys |-> numberText(defaultGpaRules[key])],
             event |-> noEvent]

ruleForm == [gpaRules |-> call.gpaRules, gpaRuleInputValues |-> call.gpaRuleInputValues]

handleRuleInputChange(key, rawValue) ==
  /\ call.fn = "gpaRuleInputs"
  /\ \E form \in {changedRuleInput(ruleForm, key, rawValue)} :
       call' = [call EXCEPT !.gpaRules = form.gpaRules,
                            !.gpaRuleInputValues = form.gpaRuleInputValues,
                            !.event = [handler |-> "handleRuleInputChange", key |-> key,
                                       rawValue |-> rawValue]]
  /\ UNCHANGED component

commitRuleInput(key) ==
  /\ call.fn = "gpaRuleInputs"
  /\ \E form \in {committedRuleInput(ruleForm, key)} :
       call' = [call EXCEPT !.gpaRules = form.gpaRules,
                            !.gpaRuleInputValues = form.gpaRuleInputValues,
                            !.event = [handler |-> "commitRuleInput", key |-> key,
                                       rawValue |-> << >>]]
  /\ UNCHANGED component

NextRules ==
  \/ \E key \in RuleKeys, rawValue \in RuleTexts : handleRuleInputChange(key, rawValue)
  \/ \E key \in RuleKeys : commitRuleInput(key)

SpecRules == InitRules /\ [][NextRules]_vars

(***************************************************************************)
(* Claims                                                                  *)
(***************************************************************************)
inFlight(r) == pc[r] \notin {"idle", "ended"}

decides(r) == run[r].outcome = "none" /\ run'[r].outcome # "none"

(* C1: once cancelProcessing has been invoked during a run, the run ends   *)
(* in the cancelled outcome: whenever a run whose cancellation has been    *)
(* requested settles its outcome, that outcome is cancelled, never done,   *)
(* empty or failed.                                                        *)
C1_CancelEndsCancelled ==
  [][\A r \in Runs :
       (cancelRequested /\ decides(r)) => run'[r].outcome = "cancelled"]_vars

(* C2: terminate is invoked exactly once on every engine a run created:    *)
(* never more than once, and once by the time the run has ended.           *)
C2_TerminateExactlyOnce ==
  \A r \in Runs :
    /\ engine[r].terminateCalls <= 1
    /\ (pc[r] = "ended" /\ engine[r].state # "none") => engine[r].terminateCalls = 1

(* C3: at any moment at most one run is in flight and at most one engine   *)
(* is live (created and not yet terminated).                               *)
C3_OneRunOneEngine ==
  /\ Cardinality({r \in Runs : inFlight(r)}) <= 1
  /\ Cardinality({w \in Runs : engine[w].state = "live"}) <= 1

lastStepIsError(steps) ==
  /\ Len(steps) > 0
  /\ steps[Len(steps)].id = "summary"
  /\ steps[Len(steps)].status = "error"

(* C4: when an awaited step fails and no cancellation was requested, the   *)
(* run issues no further recognition call, records stays empty, the last   *)
(* step (summary) is set to error, the engine if created is terminated,    *)
(* and isProcessing is false once the run has ended.                       *)
C4_FailureAborts ==
  [][\A r \in Runs :
       /\ (~cancelRequested /\ decides(r) /\ run'[r].outcome = "failed") =>
            /\ pc'[r] \in {"terminate", "ended"}
            /\ run'[r].inflight = 0
            /\ records' = <<>>
            /\ lastStepIsError(processingSteps')
            /\ run[r].worker # NoWorker => engine'[run[r].worker].state = "terminated"
       /\ (run[r].outcome = "failed" /\ pc[r] = "terminate" /\ pc'[r] = "ended") =>
            ~isProcessing']_vars

lexLess(a, b) ==
  \/ a[1] < b[1]
  \/ a[1] = b[1] /\ a[2] < b[2]
  \/ a[1] = b[1] /\ a[2] = b[2] /\ a[3] < b[3]

issues(r) == run'[r].issued = run[r].issued + 1

(* the rows of the run's images the row loop does not skip, as (image, row, 0) *)
liveRows(rr) ==
  UNION {LET located == fileTable[rr.images[i + 1].file]
         IN  {<< i, k, 0 >> : k \in {n \in 0..(Len(located.rows) - 1) :
                                       ~skipsRow(located.rows[n + 1], located.bounds)}} :
         i \in 0..(Len(rr.images) - 1)}

(* no row that is not skipped lies strictly between the rows of two calls *)
noRowBetween(rr, a, b) ==
  \A q \in liveRows(rr) : ~(lexLess(<< a[1], a[2], 0 >>, q) /\ lexLess(q, << b[1], b[2], 0 >>))

recordsInOrder(list) ==
  \A i, j \in DOMAIN list :
    i < j => lexLess(<< list[i].id[2], list[i].id[3], 0 >>, << list[j].id[2], list[j].id[3], 0 >>)

(* C5: recognition calls are issued one at a time and in increasing        *)
(* (image, row, column) order: the columns 1..9 of a row in turn, a new    *)
(* row only after the ninth column of the previous one, no row that is not *)
(* skipped passed over, the run completing only after a ninth column; and  *)
(* the published records are in increasing (image, row) order.             *)
C5_CallsInOrder ==
  /\ [](\A r \in Runs : run[r].inflight <= 1 /\ recordsInOrder(run[r].aggregated))
  /\ [](recordsInOrder(records))
  /\ [][\A r \in Runs :
          /\ run'[r].issued # run[r].issued => (issues(r) \/ run'[r].issued = 0)
          /\ issues(r) =>
               /\ run'[r].inflight = 1
               /\ run'[r].lastCall[3] \in 1..Len(columnLayout)
               /\ << run'[r].lastCall[1], run'[r].lastCall[2], 0 >> \in liveRows(run'[r])
          /\ (issues(r) /\ run[r].issued = 0) =>
               /\ run'[r].lastCall[3] = 1
               /\ noRowBetween(run'[r], << -1, 0 >>, run'[r].lastCall)
          /\ (issues(r) /\ run[r].issued > 0) =>
               /\ lexLess(run[r].lastCall, run'[r].lastCall)
               /\ \/ /\ run'[r].lastCall[1] = run[r].lastCall[1]
                     /\ run'[r].lastCall[2] = run[r].lastCall[2]
                     /\ run'[r].lastCall[3] = run[r].lastCall[3] + 1
                  \/ /\ run[r].lastCall[3] = Len(columnLayout)
                     /\ run'[r].lastCall[3] = 1
                     /\ noRowBetween(run'[r], run[r].lastCall, run'[r].lastCall)
          /\ (decides(r) /\ run'[r].outcome \in {"done", "empty"}) =>
               /\ run[r].issued > 0 => run[r].lastCall[3] = Len(columnLayout)
               /\ noRowBetween(run[r],
                               IF run[r].issued > 0 THEN run[r].lastCall ELSE << -1, 0 >>,
                               << Len(run[r].images), 0 >>)]_vars

(* a run has published two records taken from two images *)
C5_Witness ==
  /\ pc[1] = "ended"
  /\ run[1].outcome = "done"
  /\ Len(records) = 2
  /\ records[1].id[2] = 0
  /\ records[2].id[2] = 1

(* the three acceptance conditions, as the claim words them *)
fourDigitsIn(text) ==
  \E i \in 1..Len(text) :
    /\ i + 3 <= Len(text)
    /\ text[i] \in Digits /\ text[i + 1] \in Digits
    /\ text[i + 2] \in Digits /\ text[i + 3] \in Digits

namesSummary(text) ==
  \/ containsText(text, <<"u5B78", "u671F", "u6210", "u7E3E">>)
  \/ containsText(text, <<"u5E73", "u5747">>)
  \/ containsText(text, <<"C", "r", "e", "d", "i", "t", "s">>)
  \/ containsText(text, <<"u7E3D", "u5206">>)

meetsAcceptance(course) ==
  /\ fourDigitsIn(course.courseNumber)
  /\ ~course.score.isNull
  /\ ~namesSummary(course.courseName)
  /\ ~namesSummary(course.remarks)

(* the ninth cell of a row returns and the run goes on or completes *)
closesRow(r) ==
  /\ pc[r] = "recognize"
  /\ run[r].column = Len(columnLayout)
  /\ run'[r] # run[r]
  /\ run'[r].outcome \in {"none", "done", "empty"}

(* the records of the run after the step: its list, or what it published *)
collected(r) == IF run'[r].outcome = "none" THEN run'[r].aggregated ELSE records'

activeLines(img, row) ==
  {y \in row.top..row.bottom : RatioGT(analyzeRow(img, y).activeRatio, 1, 100)}

(* a row band made of marker-coloured scanlines (marker ratio above 0.1) *)
isHeaderBand(img, row) ==
  /\ activeLines(img, row) # {}
  /\ \A y \in activeLines(img, row) : RatioGT(analyzeRow(img, y).greenRatio, 1, 10)

headerBandsOf(file) ==
  LET located == fileTable[file]
      tableData == cropImage(fileSheet(file), located.bounds)
  IN  {k \in 0..(Len(located.rows) - 1) : isHeaderBand(tableData, located.rows[k + 1])}

(* headerBandsOf each file, evaluated once *)
fileHeaderBands ==
  [A |-> headerBandsOf("A"), B |-> headerBandsOf("B"), C |-> headerBandsOf("C")]

(* C7: header rows are skipped: no recognition call is issued for a row    *)
(* band made of marker-coloured scanlines, and no record comes from one.   *)
C7_HeaderRowsSkipped ==
  \A r \in Runs :
    /\ run[r].issued > 0 =>
         run[r].lastCall[2] \notin
           fileHeaderBands[run[r].images[run[r].lastCall[1] + 1].file]
    /\ \A i \in DOMAIN run[r].aggregated :
         run[r].aggregated[i].id[3] \notin
           fileHeaderBands[run[r].images[run[r].aggregated[i].id[2] + 1].file]

(* the band painted on the buffer detectRows was applied to *)
bandTop == call.imageData.bands[1].top
bandHeight == call.imageData.bands[1].bottom - call.imageData.bands[1].top + 1

(* 1000 * max(12, 0.015 H) *)
threshold1000 == Max2(12000, 15 * call.imageData.height)

(* C8 as stated: the strict comparison is against the height of the band:  *)
(* a band one below the threshold and a band at the threshold give no row, *)
(* a band one above the threshold gives exactly one.                       *)
C8_StrictOnBandHeight ==
  (call.fn = "detectRows" /\ call.returned) =>
    /\ bandHeight * 1000 = threshold1000 - 1000 => Len(call.rows) = 0
    /\ bandHeight * 1000 = threshold1000 => Len(call.rows) = 0
    /\ bandHeight * 1000 = threshold1000 + 1000 => Len(call.rows) = 1

(* C8 amended: the strict comparison is against the height of the detected *)
(* row, bottom - top, which is the height of the band plus 2 (the row      *)
(* opens one scanline above the band and closes on the second blank        *)
(* scanline below it): the band gives exactly one row, of that extent,     *)
(* when its height plus 2 exceeds max(12, 0.015 H), and none otherwise.    *)
C8_StrictOnRowHeight ==
  (call.fn = "detectRows" /\ call.returned) =>
    IF (bandHeight + 2) * 1000 > threshold1000
    THEN /\ Len(call.rows) = 1
         /\ call.rows[1].top = bandTop - 1
         /\ call.rows[1].bottom = bandTop + bandHeight + 1
         /\ call.rows[1].height = bandHeight + 2
    ELSE call.rows = << >>

(* a band of 14 scanlines, one below the threshold 15 of a buffer of 1000 *)
(* scanlines, has given a row                                            *)
C8_Witness ==
  /\ call.fn = "detectRows"
  /\ call.returned
  /\ call.imageData.height = 1000
  /\ bandHeight = 14
  /\ Len(call.rows) = 1

(* C9: the Bounds returned by detectTableBounds lies within the image:     *)
(* 0 <= x, 0 <= y, width >= 0, height >= 0, x + width <= image width and   *)
(* y + height <= image height.                                             *)
C9_BoundsWithinImage ==
  (call.fn = "detectTableBounds" /\ call.returned) =>
    /\ 0 <= call.bounds.x
    /\ 0 <= call.bounds.y
    /\ call.bounds.width >= 0
    /\ call.bounds.height >= 0
    /\ call.bounds.x + call.bounds.width <= call.imageData.width
    /\ call.bounds.y + call.bounds.height <= call.imageData.height

(* a table found strictly inside its image, off the left and the top edge *)
C9_Witness ==
  /\ call.fn = "detectTableBounds"
  /\ call.returned
  /\ call.bounds.x > 0
  /\ call.bounds.y > 0
  /\ call.bounds.width > 0
  /\ call.bounds.height > 0
  /\ call.bounds.y + call.bounds.height < call.imageData.height

(* the marker-coloured pixels of scanline y *)
markerCount(img, y) ==
  Cardinality({x \in 0..(img.width - 1) : isGreenPixel(pixel(img, x, y))})

(* no scanline has a marker ratio above 0.05 *)
noMarkerLine(img) ==
  \A y \in 0..(img.height - 1) : markerCount(img, y) * 100 <= 5 * img.width

(* C10: for an image in which no scanline has a marker ratio above 0.05,   *)
(* detectTableBounds returns exactly x 0, y 0, the image width and the     *)
(* image height, whatever the active pixels are.                           *)
C10_NoMarkerWholeImage ==
  (call.fn = "detectTableBounds" /\ call.returned /\ noMarkerLine(call.imageData)) =>
    call.bounds = [x |-> 0, y |-> 0, width |-> call.imageData.width,
                   height |-> call.imageData.height]

(* an image with marker-coloured pixels, none of its scanlines above 0.05, *)
(* and an inked rule, for which the whole image has been returned          *)
C10_Witness ==
  /\ call.fn = "detectTableBounds"
  /\ call.returned
  /\ noMarkerLine(call.imageData)
  /\ \E y \in 0..(call.imageData.height - 1) : markerCount(call.imageData, y) > 0
  /\ Len(call.imageData.bands) = 2
  /\ call.bounds.width = call.imageData.width
  /\ call.bounds.height = call.imageData.height

(* the x positions of the marker-coloured pixels on the scanlines whose    *)
(* marker ratio is above 0.02                                              *)
markerColumns(img) ==
  {x \in 0..(img.width - 1) :
     \E y \in 0..(img.height - 1) :
       /\ markerCount(img, y) * 100 > 2 * img.width
       /\ isGreenPixel(pixel(img, x, y))}

(* a header row was found, and the marker span is unusable *)
unusableMarkerSpan(img) ==
  /\ ~noMarkerLine(img)
  /\ SetMin(markerColumns(img)) >= SetMax(markerColumns(img))

(* C11: when detectTableBounds found a header row but the minimum marker X *)
(* is not below the maximum marker X, the returned Bounds spans the full   *)
(* image width: x = 0 and width = the image width.                         *)
C11_UnusableSpanFullWidth ==
  (call.fn = "detectTableBounds" /\ call.returned /\ unusableMarkerSpan(call.imageData)) =>
    /\ call.bounds.x = 0
    /\ call.bounds.width = call.imageData.width

(* the records with both credits and score non-null, in list order *)
bothKnown(list) ==
  LET known(rec) == ~rec.credits.isNull /\ ~rec.score.isNull
  IN  SelectSeq(list, known)

(* the records with a non-null score, in list order *)
scoreKnown(list) ==
  LET known(rec) == ~rec.score.isNull
  IN  SelectSeq(list, known)

(* the sum of a list of numbers *)
RECURSIVE sumOf(_)
sumOf(terms) ==
  IF terms = <<>> THEN Dec(0, 0) ELSE decAdd(Head(terms), sumOf(Tail(terms)))

quotientOrZero(total, count) ==
  IF count.n = 0 THEN zeroQuotient ELSE divide(total, count)

(* the reference definition of the summary *)
referenceSummary(list, rules) ==
  LET credited == bothKnown(list)
      scored == scoreKnown(list)
      totalCredits == sumOf([k \in 1..Len(credited) |-> credited[k].credits])
  IN  [totalCredits |-> totalCredits,
       weightedScore |->
         quotientOrZero(sumOf([k \in 1..Len(credited) |->
                                 decMul(credited[k].score, credited[k].credits)]),
                        totalCredits),
       averageScore |->
         quotientOrZero(sumOf([k \in 1..Len(scored) |-> scored[k].score]),
                        Dec(Len(scored), 0)),
       gpa |->
         quotientOrZero(sumOf([k \in 1..Len(credited) |->
                                 calculateGpa(credited[k].score, credited[k].credits, rules)]),
                        totalCredits)]

(* C12: for every list of records and every GpaRules the computed summary  *)
(* equals the reference definition: totalCredits is the sum of credits     *)
(* over the records with credits and score both non-null; weightedScore is *)
(* the sum of score * credits over them divided by totalCredits; gpa is    *)
(* the sum of calculateGpa over them divided by totalCredits; averageScore *)
(* is the sum of the non-null scores divided by their number; each         *)
(* quotient is 0 when its divisor is 0.                                    *)
C12_SummaryIsReference ==
  (call.fn = "summary" /\ call.returned) =>
    call.summary = referenceSummary(call.records, call.gpaRules)

(* the list [{3, 90}, {null, 85}, {2, null}] under the default rules has   *)
(* given 3, 90, 87.5 and 4                                                 *)
C12_Witness ==
  /\ call.fn = "summary"
  /\ call.returned
  /\ call.gpaRules = defaultGpaRules
  /\ call.records = << gradedCourse(1, Dec(3, 0), Dec(90, 0)),
                       gradedCourse(2, NullNumber, Dec(85, 0)),
                       gradedCourse(3, Dec(2, 0), NullNumber) >>
  /\ call.summary = [totalCredits |-> Dec(3, 0),
                     weightedScore |-> [num |-> 90, den |-> 1],
                     averageScore |-> [num |-> 175, den |-> 2],
                     gpa |-> [num |-> 4, den |-> 1]]

(* a numeric key value with null taken as 0 *)
nullAsZero(record, sortKey) ==
  IF keyValue(record, sortKey).isNull THEN Dec(0, 0) ELSE keyValue(record, sortKey)

(* a goes before or level with b under the stated comparison *)
notAfter(a, b, sortKey) ==
  IF sortKey \in NumericKeys
  THEN decGE(nullAsZero(b, sortKey), nullAsZero(a, sortKey))
  ELSE ~textLess(toLowerCase(keyValue(b, sortKey)), toLowerCase(keyValue(a, sortKey)))

(* where a record stood in the records list *)
extractionIndex(record) == record.id[3]

(* C13: sorted by credits or score, records are ordered numerically with   *)
(* null taken as 0, in both directions, and a null and a 0 compare equal,  *)
(* so that they keep their original relative order; sorted by another      *)
(* field, records are ordered by their lower-cased text.                   *)
C13_NullSortsAsZero ==
  (call.fn = "sortedRecords" /\ call.returned) =>
    \A i, j \in 1..Len(call.sortedRecords) :
      i < j =>
        LET first == IF call.sortDirection = "asc" THEN call.sortedRecords[i]
                     ELSE call.sortedRecords[j]
            second == IF call.sortDirection = "asc" THEN call.sortedRecords[j]
                      ELSE call.sortedRecords[i]
        IN  /\ notAfter(first, second, call.sortKey)
            /\ (call.sortKey \in NumericKeys /\ notAfter(second, first, call.sortKey)) =>
                 extractionIndex(call.sortedRecords[i])
                   < extractionIndex(call.sortedRecords[j])

(* the key values of a and b are equal as the sort compares them: the same *)
(* number, both null, or the same text once lower-cased                    *)
sameKeyValue(a, b, sortKey) ==
  IF sortKey \in NumericKeys
  THEN keyValue(a, sortKey) = keyValue(b, sortKey)
  ELSE toLowerCase(keyValue(a, sortKey)) = toLowerCase(keyValue(b, sortKey))

(* C14: sortedRecords is a permutation of records in which two records     *)
(* with equal key values keep their original relative order, for every     *)
(* key and direction, and records itself stays in extraction order.        *)
C14_StablePermutation ==
  (call.fn = "sortedRecords" /\ call.returned) =>
    /\ Len(call.sortedRecords) = Len(call.records)
    /\ \A k \in 1..Len(call.records) :
         \E i \in 1..Len(call.sortedRecords) : call.sortedRecords[i] = call.records[k]
    /\ \A i, j \in 1..Len(call.sortedRecords) :
         (i < j /\ sameKeyValue(call.sortedRecords[i], call.sortedRecords[j], call.sortKey)) =>
           extractionIndex(call.sortedRecords[i]) < extractionIndex(call.sortedRecords[j])
    /\ \A k \in 1..Len(call.records) : extractionIndex(call.records[k]) = k

(* three records sorted by name, descending: "a", "B", "A" has become      *)
(* "B", "a", "A"                                                           *)
C14_Witness ==
  /\ call.fn = "sortedRecords"
  /\ call.returned
  /\ call.sortKey = "courseName"
  /\ call.sortDirection = "desc"
  /\ Len(call.records) = 3
  /\ call.records[1].courseName = << "a" >>
  /\ call.records[2].courseName = << "B" >>
  /\ call.records[3].courseName = << "A" >>
  /\ call.sortedRecords = << call.records[2], call.records[1], call.records[3] >>

(* score reaches the threshold *)
reaches(score, threshold) == score.n * Pow10(threshold.e) >= threshold.n * Pow10(score.e)

(* credits taken count times *)
times(count, credits) == canonical(count * credits.n, credits.e)

(* C15: calculateGpa returns 4 * credits if score >= gradeA, otherwise     *)
(* 3 * credits if score >= gradeB, otherwise 2 * credits if score >=       *)
(* gradeC, otherwise 0, the boundaries inclusive and tested in the order   *)
(* A, B, C; a non-finite score or credits gives 0.                         *)
C15_GpaTiers ==
  (call.fn = "calculateGpa" /\ call.returned) =>
    IF ~NumberIsFinite(call.score) \/ ~NumberIsFinite(call.credits)
    THEN call.points = Dec(0, 0)
    ELSE /\ reaches(call.score, call.rules.gradeA) => call.points = times(4, call.credits)
         /\ (~reaches(call.score, call.rules.gradeA)
             /\ reaches(call.score, call.rules.gradeB)) =>
              call.points = times(3, call.credits)
         /\ (~reaches(call.score, call.rules.gradeA)
             /\ ~reaches(call.score, call.rules.gradeB)
             /\ reaches(call.score, call.rules.gradeC)) =>
              call.points = times(2, call.credits)
         /\ (~reaches(call.score, call.rules.gradeA)
             /\ ~reaches(call.score, call.rules.gradeB)
             /\ ~reaches(call.score, call.rules.gradeC)) =>
              call.points = Dec(0, 0)

(* score 80 on the gradeA boundary of {80, 70, 60} with credits 3 has      *)
(* given 12                                                                *)
C15_Witness ==
  /\ call.fn = "calculateGpa"
  /\ call.returned
  /\ call.rules = defaultGpaRules
  /\ call.score = Dec(80, 0)
  /\ call.credits = Dec(3, 0)
  /\ call.points = Dec(12, 0)

(* the characters of text that are a digit or a dot, in order *)
remaining(text) ==
  LET kept(c) == c \in Digits \/ c = "."
  IN  SelectSeq(text, kept)

(* text is a decimal numeral: digits with at most one dot among them *)
isNumeral(text) ==
  /\ \E k \in 1..Len(text) : text[k] \in Digits
  /\ Cardinality({k \in 1..Len(text) : text[k] = "."}) <= 1

(* the lengths of the numerals that text begins with *)
numeralPrefixes(text) == {k \in 1..Len(text) : isNumeral(SubSeq(text, 1, k))}

(* the digits of a numeral after its dot *)
decimals(numeral) ==
  IF \E k \in 1..Len(numeral) : numeral[k] = "."
  THEN Len(numeral) - (CHOOSE k \in 1..Len(numeral) : numeral[k] = ".")
  ELSE 0

(* the number a numeral denotes *)
denotes(numeral) ==
  LET digit(c) == c \in Digits
  IN  canonical(digitsValue(SelectSeq(numeral, digit)), decimals(numeral))

(* C16: parseNumber removes every character that is not a digit or a dot;  *)
(* it returns null when nothing parseable remains (nothing at all, no      *)
(* digit, or no numeral at the start) and otherwise the decimal number     *)
(* read from the remaining characters; the result is never NaN, never      *)
(* negative, and zero is returned as 0, not as null.                       *)
C16_ParseNumber ==
  (call.fn = "parseNumber" /\ call.returned) =>
    /\ ~NumberIsNaN(call.result)
    /\ NumberIsFinite(call.result)
    /\ (\A k \in 1..Len(call.value) : call.value[k] \notin Digits) => call.result.isNull
    /\ IF numeralPrefixes(remaining(call.value)) = {}
       THEN call.result.isNull
       ELSE /\ ~call.result.isNull
            /\ call.result.n >= 0
            /\ call.result =
                 denotes(SubSeq(remaining(call.value), 1,
                                SetMax(numeralPrefixes(remaining(call.value)))))

(* "87.5 u5206" has been read as 87.5 *)
C16_Witness ==
  /\ call.fn = "parseNumber"
  /\ call.returned
  /\ call.value = << "8", "7", ".", "5", " ", "u5206" >>
  /\ call.result = Dec(875, 1)

(* how far a step has got: pending, then active, then done or error *)
stepRank(step) ==
  CASE step.status = "pending" -> 0
    [] step.status = "active" -> 1
    [] step.status \in {"done", "error"} -> 2

(* the step list shows the five steps, and no run has failed or been       *)
(* cancelled                                                               *)
stepsOfSoundRun ==
  /\ Len(processingSteps) = Len(initialSteps)
  /\ Len(processingSteps') = Len(initialSteps)
  /\ \A r \in Runs : run'[r].outcome \notin {"failed", "cancelled"}

(* C17: on a run that neither fails nor is cancelled the five steps are    *)
(* traversed in list order: a step is active before it becomes done or     *)
(* error, no step is done while an earlier one is pending or active, and   *)
(* no status moves backwards.                                              *)
C17_StepsInOrder ==
  [][stepsOfSoundRun =>
       \A i \in 1..Len(initialSteps) :
         /\ stepRank(processingSteps'[i]) >= stepRank(processingSteps[i])
         /\ (stepRank(processingSteps'[i]) = 2 /\ stepRank(processingSteps[i]) < 2) =>
              processingSteps[i].status = "active"
         /\ processingSteps'[i].status = "done" =>
              \A j \in 1..(i - 1) : stepRank(processingSteps'[j]) = 2]_vars

(* the failure indication: the error tone or the failure message *)
reportsFailure == statusTone = "error" \/ statusMessage = Msg("failed", 0)

(* the statuses of the processing steps, in list order *)
stepStatuses == [i \in DOMAIN processingSteps |-> processingSteps[i].status]

(* C18: a run that completes with zero accepted records ends in a state    *)
(* that differs from the state a fatal error leaves: the failure shows     *)
(* the error tone and the failure message, the zero-records completion     *)
(* shows neither (it shows the info tone and its own message).             *)
C18_ZeroRecordsIsNotFailure ==
  [][\A r \in Runs :
       /\ (decides(r) /\ run'[r].outcome = "empty") =>
            /\ ~reportsFailure'
            /\ statusTone' = "info"
            /\ statusMessage' = Msg("noRecords", 0)
       /\ (decides(r) /\ run'[r].outcome = "failed") =>
            /\ statusTone' = "error"
            /\ statusMessage' = Msg("failed", 0)]_vars

(* a run has completed with no accepted record: nothing is published, all  *)
(* steps but the last are done, and the info tone is shown                 *)
C18_Witness ==
  /\ run[1].outcome = "empty"
  /\ pc[1] = "terminate"
  /\ records = <<>>
  /\ stepStatuses = << "done", "done", "done", "done", "error" >>
  /\ statusTone = "info"
  /\ statusMessage = Msg("noRecords", 0)

(* out is side * 2400 / longest rounded to a nearest integer *)
nearestProportional(out, side, longest) ==
  /\ 2 * (out * longest - side * MAX_IMAGE_DIMENSION) <= longest
  /\ 2 * (side * MAX_IMAGE_DIMENSION - out * longest) <= longest

(* C19: for every source size (w, h) with w, h >= 1, if max(w, h) <= 2400  *)
(* the output size is exactly (w, h); otherwise the larger output          *)
(* dimension is exactly 2400, the other is other * 2400 / max(w, h)        *)
(* rounded to a nearest integer, and both are <= 2400.                     *)
C19_ScaleImage ==
  (call.fn = "scaleImage" /\ call.returned) =>
    LET w == call.naturalWidth
        h == call.naturalHeight
        longest == Max2(w, h)
    IN  IF longest <= MAX_IMAGE_DIMENSION
        THEN call.width = w /\ call.height = h
        ELSE /\ Max2(call.width, call.height) = MAX_IMAGE_DIMENSION
             /\ (w >= h) => call.width = MAX_IMAGE_DIMENSION
             /\ (h >= w) => call.height = MAX_IMAGE_DIMENSION
             /\ nearestProportional(call.width, w, longest)
             /\ nearestProportional(call.height, h, longest)
             /\ call.width <= MAX_IMAGE_DIMENSION
             /\ call.height <= MAX_IMAGE_DIMENSION

(* a 3000 x 7201 image has been scaled to 1000 x 2400 *)
C19_Witness ==
  /\ call.fn = "scaleImage"
  /\ call.returned
  /\ call.naturalWidth = 3000
  /\ call.naturalHeight = 7201
  /\ call.width = 1000
  /\ call.height = MAX_IMAGE_DIMENSION

(* the inked pixels of scanline y *)
activeCount(img, y) ==
  Cardinality({x \in 0..(img.width - 1) : isActive(pixel(img, x, y))})

(* activeRatio > 0.015 *)
opensRow(img, y) == activeCount(img, y) * 1000 > 15 * img.width

(* activeRatio <= 0.01 *)
quietLine(img, y) == activeCount(img, y) * 100 <= img.width

(* the scanlines at or after from that open a row *)
openings(img, from) == {y \in from..(img.height - 1) : opensRow(img, y)}

(* the second scanlines of a pair of consecutive quiet ones after opening o *)
closings(img, o) ==
  {y \in (o + 2)..(img.height - 1) : quietLine(img, y - 1) /\ quietLine(img, y)}

(* the rows of the two-state scan from scanline from on: each opened by    *)
(* the first opening scanline met outside a row and closed at the first    *)
(* second consecutive quiet scanline after it, or left open at the end     *)
RECURSIVE scannedRows(_, _)
scannedRows(img, from) ==
  IF openings(img, from) = {} THEN << >>
  ELSE IF closings(img, SetMin(openings(img, from))) = {}
  THEN << [top |-> Max2(0, SetMin(openings(img, from)) - 1), bottom |-> img.height - 1] >>
  ELSE << [top |-> Max2(0, SetMin(openings(img, from)) - 1),
           bottom |-> SetMin(closings(img, SetMin(openings(img, from))))] >>
       \o scannedRows(img, SetMin(closings(img, SetMin(openings(img, from)))) + 1)

(* tall enough to be returned *)
tallEnough(img, row) == (row.bottom - row.top) * 1000 > Max2(12000, 15 * img.height)

extent(row) == [top |-> row.top, bottom |-> row.bottom]

(* C20: detectRows is a two-state scan with hysteresis: a row is opened    *)
(* only by a scanline with activeRatio > 0.015 met outside a row, its top  *)
(* that index - 1 clamped to 0; inside, a scanline with activeRatio > 0.01 *)
(* resets the quiet counter, so one quiet scanline followed by a non-quiet *)
(* one does not split the row; the row is closed at the second consecutive *)
(* quiet scanline, its bottom that index.  The rows returned are these     *)
(* rows, less the ones that are not tall enough.                           *)
C20_TwoStateScan ==
  (call.fn = "detectRows" /\ call.returned) =>
    LET scanned == scannedRows(call.imageData, 0)
        tall(row) == tallEnough(call.imageData, row)
    IN  [k \in 1..Len(call.rows) |-> extent(call.rows[k])] = SelectSeq(scanned, tall)

(* two bands one quiet scanline apart have come out as one row, which      *)
(* starts one line above the first band and ends on the second quiet line  *)
(* below the second                                                        *)
C20_Witness ==
  /\ call.fn = "detectRows"
  /\ call.returned
  /\ Len(call.imageData.bands) = 2
  /\ call.imageData.bands[2].top = call.imageData.bands[1].bottom + 2
  /\ call.imageData.bands[2].bottom < call.imageData.height - 2
  /\ Len(call.rows) = 1
  /\ call.rows[1].top = call.imageData.bands[1].top - 1
  /\ call.rows[1].bottom = call.imageData.bands[2].bottom + 2

(***************************************************************************)
(* C21                                                                     *)
(***************************************************************************)
(* a row the row loop does not skip: no header row, and at least           *)
(* max(18, 2% of the table height) high                                    *)
rowIsKept(row, tableHeight) ==
  /\ ~RatioGT(row.greenRatio, 1, 10)
  /\ (row.bottom - row.top) * 100 >= Max2(1800, 2 * tableHeight)

cellColumns(cell) == cell.sx..(cell.sx + cell.sw - 1)

(* C21: for a table buffer of width >= 1, every rectangle handed to        *)
(* recognition for a row that is not skipped lies inside the buffer        *)
(* (0 <= sx, sw >= 1, sx + sw <= width, 0 <= sy, sh >= 1, sy + sh <= table *)
(* height), there is one for each of the nine columns, and the nine        *)
(* together cover every pixel column 0..width-1.                           *)
C21_CellsInsideTable ==
  (call.fn = "recognizeCells" /\ call.returned /\ call.tableData.width >= 1) =>
    \A k \in 1..Len(call.rows) :
      rowIsKept(call.rows[k], call.tableData.height) =>
        /\ Len(call.cells[k]) = 9
        /\ \A c \in 1..9 :
             LET cell == call.cells[k][c]
             IN  /\ 0 <= cell.sx /\ cell.sw >= 1
                 /\ cell.sx + cell.sw <= call.tableData.width
                 /\ 0 <= cell.sy /\ cell.sh >= 1
                 /\ cell.sy + cell.sh <= call.tableData.height
                 /\ cell.sy = call.rows[k].top
                 /\ cell.sh = call.rows[k].bottom - call.rows[k].top
        /\ UNION {cellColumns(call.cells[k][c]) : c \in 1..9}
             = 0..(call.tableData.width - 1)

(* a buffer 25 pixels wide with a kept row: 25 * 0.56 is the double just    *)
(* above 14, so that the fourth cell ends at column 15 and overlaps the    *)
(* fifth, which starts at 14; the last cell ends at the buffer's edge      *)
C21_Witness ==
  /\ call.fn = "recognizeCells" /\ call.returned
  /\ call.tableData.width = 25
  /\ \E k \in 1..Len(call.rows) :
       /\ rowIsKept(call.rows[k], call.tableData.height)
       /\ call.cells[k][4].sx + call.cells[k][4].sw = 15
       /\ call.cells[k][5].sx = 14
       /\ call.cells[k][9].sx + call.cells[k][9].sw = 25

(***************************************************************************)
(* C22                                                                     *)
(***************************************************************************)
(* the run r returns: its finally block has set isProcessing to false *)
runEnds(r) == pc[r] # "ended" /\ pc'[r] = "ended"

isTerminal(step) == step.status \in {"done", "error"}

(* C22: when a run has ended (its finally block has set isProcessing back  *)
(* to false), every processing step is done or error: none is left pending *)
(* or active, whether the run completed, found no record, failed or was    *)
(* cancelled.                                                              *)
C22_StepsTerminalAtEnd ==
  [][\A r \in Runs :
       runEnds(r) =>
         /\ ~isProcessing'
         /\ \A i \in DOMAIN processingSteps' : isTerminal(processingSteps'[i])]_vars

(***************************************************************************)
(* C23                                                                     *)
(***************************************************************************)
(* the record was extracted from an image of the list: its id names the    *)
(* position of an image whose term label it carries                        *)
extractedFrom(record, list) ==
  \E j \in DOMAIN list : record.id[2] = j - 1 /\ record.term = list[j].termLabel

(* C23: the published records belong to the currently selected image list: *)
(* after handleFileSelection or handleRemoveImage has changed the list,    *)
(* records holds nothing extracted from the previous list, also when a run *)
(* was in flight at the change.                                            *)
C23_RecordsOfCurrentImages ==
  \A i \in DOMAIN records : extractedFrom(records[i], images)

(***************************************************************************)
(* C24                                                                     *)
(***************************************************************************)
(* the row carries the ratios measured on the scanline y *)
carriesRatiosOf(img, row, y) ==
  /\ row.activeRatio = analyzeRow(img, y).activeRatio
  /\ row.greenRatio = analyzeRow(img, y).greenRatio

(* the row carries the fixed ratios of a row closed by the end of the buffer *)
carriesEndOfBuffer(img, row) ==
  /\ row.bottom = img.height - 1
  /\ row.activeRatio = Ratio(2, 100)
  /\ row.greenRatio = Ratio(0, 1)

(* C24: every row detectRows returns carries the ratios of the scanline    *)
(* that closed it (its bottom scanline, a quiet one), or, closed by the    *)
(* end of the buffer, 0.02 and 0; never those of its band: its greenRatio  *)
(* is <= 0.01 and its activeRatio <= 0.02, so that the header test         *)
(* row.greenRatio > 0.1 is false for every row.                            *)
C24_ClosingLineRatios ==
  (call.fn = "detectRows" /\ call.returned) =>
    \A k \in 1..Len(call.rows) :
      LET row == call.rows[k]
      IN  /\ RatioLE(row.greenRatio, 1, 100)
          /\ RatioLE(row.activeRatio, 2, 100)
          /\ ~RatioGT(row.greenRatio, 1, 10)
          /\ \/ carriesRatiosOf(call.imageData, row, row.bottom)
             \/ carriesEndOfBuffer(call.imageData, row)

(* a green band, every scanline of it with a greenRatio of 1, returned as  *)
(* a row whose ratios are the 0.01 of the scanline that closed it          *)
C24_Witness ==
  /\ call.fn = "detectRows" /\ call.returned
  /\ Len(call.rows) = 1
  /\ analyzeRow(call.imageData, call.rows[1].top + 1).greenRatio = Ratio(100, 100)
  /\ call.rows[1].bottom < ScanHeight - 1
  /\ call.rows[1].greenRatio = Ratio(1, 100)
  /\ call.rows[1].activeRatio = Ratio(1, 100)

(***************************************************************************)
(* C25                                                                     *)
(***************************************************************************)
(* rowHeight > max(12, 0.015 * H) *)
aboveMinimum(rowHeight, H) == rowHeight > 12 /\ 1000 * rowHeight > 15 * H

(* C25: the rows detectRows returns are in increasing vertical order and   *)
(* do not overlap: each has 0 <= top < bottom <= H - 1 and height =        *)
(* bottom - top > max(12, 0.015 * H), and each row's top is at or below    *)
(* the bottom of the row before it.                                        *)
C25_RowsOrderedDisjoint ==
  (call.fn = "detectRows" /\ call.returned) =>
    /\ \A k \in 1..Len(call.rows) :
         LET row == call.rows[k]
         IN  /\ 0 <= row.top /\ row.top < row.bottom
             /\ row.bottom <= call.imageData.height - 1
             /\ row.height = row.bottom - row.top
             /\ aboveMinimum(row.height, call.imageData.height)
    /\ \A k \in 1..(Len(call.rows) - 1) : call.rows[k + 1].top >= call.rows[k].bottom

(* two rows are returned, and the second opens on the very scanline that   *)
(* closed the first                                                        *)
C25_Witness ==
  /\ call.fn = "detectRows" /\ call.returned
  /\ Len(call.rows) = 2
  /\ call.rows[2].top = call.rows[1].bottom
  /\ call.rows[2].bottom < call.imageData.height - 1

(***************************************************************************)
(* C26                                                                     *)
(***************************************************************************)
(* C26: the earlier detectTableBounds (width written inline as             *)
(* min(width - x, right + pad) - x) and the current one (paddedLeft /      *)
(* paddedRight) return the same Bounds for every image, and the earlier    *)
(* one returns neither a negative width nor a rectangle with x + width     *)
(* beyond the image width.                                                 *)
C26_VersionsAgree ==
  (call.fn = "detectTableBoundsVersions" /\ call.returned) =>
    /\ call.earlier = call.bounds
    /\ call.earlier.width >= 0
    /\ call.earlier.x + call.earlier.width <= call.imageData.width

(***************************************************************************)
(* C27                                                                     *)
(***************************************************************************)
(* digits with at most one "." *)
isDecimalText(text) ==
  /\ \A k \in 1..Len(text) : text[k] \in Digits \cup {"."}
  /\ Cardinality({k \in 1..Len(text) : text[k] = "."}) <= 1

isThreshold(x) == NumberIsFinite(x) /\ ~x.isNull /\ x.n >= 0

ruleFormNext == [gpaRules |-> call'.gpaRules, gpaRuleInputValues |-> call'.gpaRuleInputValues]

thresholdsAndTextsSound ==
  \A key \in RuleKeys :
    isThreshold(call'.gpaRules[key]) /\ isDecimalText(call'.gpaRuleInputValues[key])

rejectedInputChangesNothing ==
  (/\ call'.event.handler = "handleRuleInputChange"
   /\ ~decimalInputPattern(normalizeDecimalInput(call'.event.rawValue)))
    => ruleFormNext = ruleForm

emptyCommitResetsText ==
  (/\ call'.event.handler = "commitRuleInput"
   /\ call.gpaRuleInputValues[call'.event.key] \in {<< >>, << "." >>})
    => /\ call'.gpaRules = call.gpaRules
       /\ call'.gpaRuleInputValues =
            [call.gpaRuleInputValues EXCEPT
               ![call'.event.key] = numberText(call.gpaRules[call'.event.key])]

secondCommitChangesNothing ==
  call'.event.handler = "commitRuleInput"
    => committedRuleInput(ruleFormNext, call'.event.key) = ruleFormNext

(* C27: after any sequence of handleRuleInputChange and commitRuleInput    *)
(* calls each threshold is a finite non-negative number and each input     *)
(* text is digits with at most one "."; an input the pattern rejects       *)
(* changes nothing; committing an empty or "." input leaves the threshold  *)
(* unchanged and resets the text to the threshold's string form; and       *)
(* committing twice in a row gives the same state as committing once.      *)
C27_RuleInputs ==
  [][call'.fn = "gpaRuleInputs" =>
       /\ thresholdsAndTextsSound
       /\ rejectedInputChangesNothing
       /\ emptyCommitResetsText
       /\ secondCommitChangesNothing]_vars

====
